---------------------------- MODULE Spec2Model ----------------------------
(***************************************************************************)
(* Model of sdcvalidatorJS: the ErrorMapper rule engine                    *)
(* (src/sdc4/error-mapper.ts), the InstanceModifier and namespace helpers  *)
(* (src/sdc4/instance-modifier.ts, src/utils/namespaces.ts), and the       *)
(* SDC4Validator orchestrator (src/sdc4/validator.ts).                     *)
(*                                                                         *)
(* Strings of the program are TLA+ strings.  Where the code looks inside a *)
(* string (toLowerCase, includes, regular expressions) the string is       *)
(* expanded to its characters through the table Chars.  An XPath string is *)
(* held as the result of splitting it on "/" (so "/a/b" is <<"","a","b">>, *)
(* "/" is <<"","">> and "" is <<"">>); an absent path is <<>>.             *)
(***************************************************************************)
EXTENDS Integers, Sequences, FiniteSets, TLC

VARIABLES
  rules,            \* ErrorMapper.rules: sequence of MappingRule
  mapped,           \* observation: argument and result of the last mapError call
  validationMode,   \* SDC4Validator.validationMode
  namespacePrefix,  \* InstanceModifier.namespacePrefix
  heap,             \* the Document objects, by reference
  calls,            \* the invocations of the validator's async methods
  schema,           \* SDC4Validator.schema: the schema source
  schemaCache,      \* globalSchemaCache: cache key -> schema
  files,            \* the file system: path -> content
  loads,            \* the invocations of loadSchema made by a caller
  direct,           \* a caller's own use of InstanceModifier and the helpers
  cli               \* the sdcvalidate process

vars == <<rules, mapped, validationMode, namespacePrefix, heap, calls,
          schema, schemaCache, files, loads, direct, cli>>

\* the state outside the validator object and its documents
ioVars == <<schemaCache, files>>
\* the state of the other callers
callerVars == <<schema, loads, direct, cli>>

-----------------------------------------------------------------------------
(* Bounds *)

MaxCustomRules == 2      \* rules added through addRule beyond the defaults
MaxErrors == 2           \* length of the list the external validator returns
MaxOps == 3              \* operations a caller applies to its own Document

-----------------------------------------------------------------------------
(* ExceptionalValueType (src/sdc4/constants.ts) *)

EVTypes ==
  {"INV", "OTH", "NI", "NA", "UNC", "UNK", "ASKU", "ASKR",
   "NASK", "NAV", "MSK", "DER", "PINF", "NINF", "TRC"}

\* what a caller observes when mapError lets an exception escape
Raised == "RAISED"

-----------------------------------------------------------------------------
(* Characters of the strings the rule conditions inspect *)

Chars ==
     ("missing required element" :> <<"m", "i", "s", "s", "i", "n", "g", " ", "r", "e", "q", "u", "i", "r", "e", "d", " ", "e", "l", "e", "m", "e", "n", "t">>)
  @@ ("not a valid value for type xs:int" :> <<"n", "o", "t", " ", "a", " ", "v", "a", "l", "i", "d", " ", "v", "a", "l", "u", "e", " ", "f", "o", "r", " ", "t", "y", "p", "e", " ", "x", "s", ":", "i", "n", "t">>)
  @@ ("does not match pattern" :> <<"d", "o", "e", "s", " ", "n", "o", "t", " ", "m", "a", "t", "c", "h", " ", "p", "a", "t", "t", "e", "r", "n">>)
  @@ ("value \"x\" is not in enumeration" :> <<"v", "a", "l", "u", "e", " ", "\"", "x", "\"", " ", "i", "s", " ", "n", "o", "t", " ", "i", "n", " ", "e", "n", "u", "m", "e", "r", "a", "t", "i", "o", "n">>)
  @@ ("unexpected element" :> <<"u", "n", "e", "x", "p", "e", "c", "t", "e", "d", " ", "e", "l", "e", "m", "e", "n", "t">>)
  @@ ("encoding error detected" :> <<"e", "n", "c", "o", "d", "i", "n", "g", " ", "e", "r", "r", "o", "r", " ", "d", "e", "t", "e", "c", "t", "e", "d">>)
  @@ ("completely unrelated issue" :> <<"c", "o", "m", "p", "l", "e", "t", "e", "l", "y", " ", "u", "n", "r", "e", "l", "a", "t", "e", "d", " ", "i", "s", "s", "u", "e">>)
  @@ ("" :> <<>>)
  @@ ("test error" :> <<"t", "e", "s", "t", " ", "e", "r", "r", "o", "r">>)
  @@ ("Value is not valid for type" :> <<"V", "a", "l", "u", "e", " ", "i", "s", " ", "n", "o", "t", " ", "v", "a", "l", "i", "d", " ", "f", "o", "r", " ", "t", "y", "p", "e">>)
  @@ ("Element age: minimum occurrence is 1" :> <<"E", "l", "e", "m", "e", "n", "t", " ", "a", "g", "e", ":", " ", "m", "i", "n", "i", "m", "u", "m", " ", "o", "c", "c", "u", "r", "r", "e", "n", "c", "e", " ", "i", "s", " ", "1">>)
  @@ ("value not allowed: unexpected whitespace" :> <<"v", "a", "l", "u", "e", " ", "n", "o", "t", " ", "a", "l", "l", "o", "w", "e", "d", ":", " ", "u", "n", "e", "x", "p", "e", "c", "t", "e", "d", " ", "w", "h", "i", "t", "e", "s", "p", "a", "c", "e">>)
  @@ ("required element has invalid value" :> <<"r", "e", "q", "u", "i", "r", "e", "d", " ", "e", "l", "e", "m", "e", "n", "t", " ", "h", "a", "s", " ", "i", "n", "v", "a", "l", "i", "d", " ", "v", "a", "l", "u", "e">>)
  @@ ("invalid value: not in enumeration" :> <<"i", "n", "v", "a", "l", "i", "d", " ", "v", "a", "l", "u", "e", ":", " ", "n", "o", "t", " ", "i", "n", " ", "e", "n", "u", "m", "e", "r", "a", "t", "i", "o", "n">>)
  @@ ("value not allowed: exceeds maximum" :> <<"v", "a", "l", "u", "e", " ", "n", "o", "t", " ", "a", "l", "l", "o", "w", "e", "d", ":", " ", "e", "x", "c", "e", "e", "d", "s", " ", "m", "a", "x", "i", "m", "u", "m">>)
  @@ ("unexpected whitespace" :> <<"u", "n", "e", "x", "p", "e", "c", "t", "e", "d", " ", "w", "h", "i", "t", "e", "s", "p", "a", "c", "e">>)
  @@ ("DecodeError" :> <<"D", "e", "c", "o", "d", "e", "E", "r", "r", "o", "r">>)
  @@ ("missing required" :> <<"m", "i", "s", "s", "i", "n", "g", " ", "r", "e", "q", "u", "i", "r", "e", "d">>)
  @@ ("required" :> <<"r", "e", "q", "u", "i", "r", "e", "d">>)
  @@ ("missing" :> <<"m", "i", "s", "s", "i", "n", "g">>)
  @@ ("element" :> <<"e", "l", "e", "m", "e", "n", "t">>)
  @@ ("content" :> <<"c", "o", "n", "t", "e", "n", "t">>)
  @@ ("not complete" :> <<"n", "o", "t", " ", "c", "o", "m", "p", "l", "e", "t", "e">>)
  @@ ("minimum " :> <<"m", "i", "n", "i", "m", "u", "m", " ">>)
  @@ (" is " :> <<" ", "i", "s", " ">>)
  @@ ("not a valid value" :> <<"n", "o", "t", " ", "a", " ", "v", "a", "l", "i", "d", " ", "v", "a", "l", "u", "e">>)
  @@ ("invalid value" :> <<"i", "n", "v", "a", "l", "i", "d", " ", "v", "a", "l", "u", "e">>)
  @@ ("is not valid for type" :> <<"i", "s", " ", "n", "o", "t", " ", "v", "a", "l", "i", "d", " ", "f", "o", "r", " ", "t", "y", "p", "e">>)
  @@ ("type" :> <<"t", "y", "p", "e">>)
  @@ ("does not match" :> <<"d", "o", "e", "s", " ", "n", "o", "t", " ", "m", "a", "t", "c", "h">>)
  @@ ("cannot be converted" :> <<"c", "a", "n", "n", "o", "t", " ", "b", "e", " ", "c", "o", "n", "v", "e", "r", "t", "e", "d">>)
  @@ ("expected type" :> <<"e", "x", "p", "e", "c", "t", "e", "d", " ", "t", "y", "p", "e">>)
  @@ ("wrong type" :> <<"w", "r", "o", "n", "g", " ", "t", "y", "p", "e">>)
  @@ ("invalid" :> <<"i", "n", "v", "a", "l", "i", "d">>)
  @@ ("format" :> <<"f", "o", "r", "m", "a", "t">>)
  @@ ("malformed" :> <<"m", "a", "l", "f", "o", "r", "m", "e", "d">>)
  @@ ("decode" :> <<"d", "e", "c", "o", "d", "e">>)
  @@ ("pattern" :> <<"p", "a", "t", "t", "e", "r", "n">>)
  @@ ("not matched" :> <<"n", "o", "t", " ", "m", "a", "t", "c", "h", "e", "d">>)
  @@ ("length constraint" :> <<"l", "e", "n", "g", "t", "h", " ", "c", "o", "n", "s", "t", "r", "a", "i", "n", "t">>)
  @@ ("minlength" :> <<"m", "i", "n", "l", "e", "n", "g", "t", "h">>)
  @@ ("maxlength" :> <<"m", "a", "x", "l", "e", "n", "g", "t", "h">>)
  @@ ("mininclusive" :> <<"m", "i", "n", "i", "n", "c", "l", "u", "s", "i", "v", "e">>)
  @@ ("maxinclusive" :> <<"m", "a", "x", "i", "n", "c", "l", "u", "s", "i", "v", "e">>)
  @@ ("minexclusive" :> <<"m", "i", "n", "e", "x", "c", "l", "u", "s", "i", "v", "e">>)
  @@ ("maxexclusive" :> <<"m", "a", "x", "e", "x", "c", "l", "u", "s", "i", "v", "e">>)
  @@ ("totaldigits" :> <<"t", "o", "t", "a", "l", "d", "i", "g", "i", "t", "s">>)
  @@ ("fractiondigits" :> <<"f", "r", "a", "c", "t", "i", "o", "n", "d", "i", "g", "i", "t", "s">>)
  @@ ("assertion" :> <<"a", "s", "s", "e", "r", "t", "i", "o", "n">>)
  @@ ("failed" :> <<"f", "a", "i", "l", "e", "d">>)
  @@ ("constraint" :> <<"c", "o", "n", "s", "t", "r", "a", "i", "n", "t">>)
  @@ ("violated" :> <<"v", "i", "o", "l", "a", "t", "e", "d">>)
  @@ ("exceeds" :> <<"e", "x", "c", "e", "e", "d", "s">>)
  @@ ("maximum" :> <<"m", "a", "x", "i", "m", "u", "m">>)
  @@ ("below" :> <<"b", "e", "l", "o", "w">>)
  @@ ("minimum" :> <<"m", "i", "n", "i", "m", "u", "m">>)
  @@ ("not in enumeration" :> <<"n", "o", "t", " ", "i", "n", " ", "e", "n", "u", "m", "e", "r", "a", "t", "i", "o", "n">>)
  @@ ("not" :> <<"n", "o", "t">>)
  @@ ("allowed value" :> <<"a", "l", "l", "o", "w", "e", "d", " ", "v", "a", "l", "u", "e">>)
  @@ ("permitted value" :> <<"p", "e", "r", "m", "i", "t", "t", "e", "d", " ", "v", "a", "l", "u", "e">>)
  @@ ("invalid enumeration" :> <<"i", "n", "v", "a", "l", "i", "d", " ", "e", "n", "u", "m", "e", "r", "a", "t", "i", "o", "n">>)
  @@ ("value" :> <<"v", "a", "l", "u", "e">>)
  @@ ("allowed" :> <<"a", "l", "l", "o", "w", "e", "d">>)
  @@ ("unexpected" :> <<"u", "n", "e", "x", "p", "e", "c", "t", "e", "d">>)
  @@ ("not allowed" :> <<"n", "o", "t", " ", "a", "l", "l", "o", "w", "e", "d">>)
  @@ ("not permitted" :> <<"n", "o", "t", " ", "p", "e", "r", "m", "i", "t", "t", "e", "d">>)
  @@ ("extra element" :> <<"e", "x", "t", "r", "a", " ", "e", "l", "e", "m", "e", "n", "t">>)
  @@ ("unknown element" :> <<"u", "n", "k", "n", "o", "w", "n", " ", "e", "l", "e", "m", "e", "n", "t">>)
  @@ ("not expected" :> <<"n", "o", "t", " ", "e", "x", "p", "e", "c", "t", "e", "d">>)
  @@ ("encoding error" :> <<"e", "n", "c", "o", "d", "i", "n", "g", " ", "e", "r", "r", "o", "r">>)
  @@ ("decode error" :> <<"d", "e", "c", "o", "d", "e", " ", "e", "r", "r", "o", "r">>)
  @@ ("character" :> <<"c", "h", "a", "r", "a", "c", "t", "e", "r">>)
  @@ ("invalid character" :> <<"i", "n", "v", "a", "l", "i", "d", " ", "c", "h", "a", "r", "a", "c", "t", "e", "r">>)
  @@ ("whitespace" :> <<"w", "h", "i", "t", "e", "s", "p", "a", "c", "e">>)
  @@ ("test" :> <<"t", "e", "s", "t">>)

UpperCase ==
  <<"A","B","C","D","E","F","G","H","I","J","K","L","M",
    "N","O","P","Q","R","S","T","U","V","W","X","Y","Z">>

LowerCase ==
  <<"a","b","c","d","e","f","g","h","i","j","k","l","m",
    "n","o","p","q","r","s","t","u","v","w","x","y","z">>

Digits == {"0","1","2","3","4","5","6","7","8","9"}

\* String.prototype.toLowerCase on a character sequence
ToLowerCase(cs) ==
  [i \in 1..Len(cs) |->
     IF \E k \in 1..26 : UpperCase[k] = cs[i]
       THEN LowerCase[CHOOSE k \in 1..26 : UpperCase[k] = cs[i]]
       ELSE cs[i]]

\* needle occurs in hay starting at 1-based position i
OccursAt(hay, needle, i) ==
  /\ i >= 1
  /\ i + Len(needle) - 1 <= Len(hay)
  /\ \A k \in 1..Len(needle) : hay[i + k - 1] = needle[k]

\* String.prototype.includes on character sequences
Includes(hay, needle) ==
  \E i \in 1..(Len(hay) + 1) : OccursAt(hay, Chars[needle], i)

\* /minimum .* is \d+/.test(msg)
MinimumIsDigits(msg) ==
  \E i \in 1..Len(msg) :
    /\ OccursAt(msg, Chars["minimum "], i)
    /\ \E j \in (i + 8)..Len(msg) :
         /\ OccursAt(msg, Chars[" is "], j)
         /\ j + 4 <= Len(msg)
         /\ msg[j + 4] \in Digits
         /\ \A k \in (i + 8)..(j - 1) : msg[k] # "\n"

-----------------------------------------------------------------------------
(* ValidationError (src/types/validator.ts).  type "" stands for an absent  *)
(* or empty type: both are falsy in every place the code reads it.          *)

NoPath == <<>>
RootPath == <<"", "">>

Err(message, path, type) == [message |-> message, path |-> path, type |-> type]

\* the errors handed to mapError
Errors ==
  { Err("missing required element", <<"", "root", "person", "email">>, ""),
    Err("not a valid value for type xs:int", <<"", "root", "person", "age">>, ""),
    Err("unexpected element", NoPath, ""),
    Err("", <<"", "nope", "x">>, ""),
    Err("test error", <<"", "test">>, ""),
    Err("completely unrelated issue", <<"", "root", "person", "name">>, "DecodeError") }

\* errors whose message matches the patterns of several default categories
OverlapErrors ==
  { Err("required element has invalid value", <<"", "root", "person", "age">>, ""),
    Err("invalid value: not in enumeration", <<"", "root", "person", "age">>, ""),
    Err("value not allowed: exceeds maximum", <<"", "root", "person", "age">>, ""),
    Err("value not allowed: unexpected whitespace", <<"", "root", "person", "name">>, ""),
    Err("unexpected whitespace", <<"", "root", "person", "name">>, ""),
    Err("encoding error detected", NoPath, "") }

\* the errors the external validator reports
ValidatorErrors ==
  { Err("not a valid value for type xs:int", <<"", "root", "person", "age">>, ""),
    Err("unexpected element", NoPath, ""),
    Err("", <<"", "nope", "x">>, ""),
    Err("test error", <<"", "test">>, "") }

-----------------------------------------------------------------------------
(* Default rule conditions (ErrorMapper.initializeDefaultRules) *)

LowerMessage(error) == ToLowerCase(Chars[error.message])

Rule1Cond(error) ==
  LET msg == LowerMessage(error) IN
    \/ Includes(msg, "missing required")
    \/ (Includes(msg, "required") /\ Includes(msg, "missing"))
    \/ (Includes(msg, "element") /\ Includes(msg, "required"))
    \/ (Includes(msg, "content") /\ Includes(msg, "not complete"))
    \/ MinimumIsDigits(msg)

Rule2Cond(error) ==
  LET msg == LowerMessage(error) IN
    \/ Includes(msg, "not a valid value")
    \/ Includes(msg, "invalid value")
    \/ Includes(msg, "is not valid for type")
    \/ (Includes(msg, "type") /\ Includes(msg, "does not match"))
    \/ Includes(msg, "cannot be converted")
    \/ Includes(msg, "expected type")
    \/ Includes(msg, "wrong type")
    \/ (Includes(msg, "invalid") /\ Includes(msg, "format"))
    \/ Includes(msg, "malformed")
    \/ (error.type # "" /\ Includes(ToLowerCase(Chars[error.type]), "decode"))

Rule3Cond(error) ==
  LET msg == LowerMessage(error) IN
    \/ (Includes(msg, "pattern") /\ Includes(msg, "not matched"))
    \/ Includes(msg, "does not match pattern")
    \/ Includes(msg, "length constraint")
    \/ Includes(msg, "minlength") \/ Includes(msg, "maxlength")
    \/ Includes(msg, "mininclusive") \/ Includes(msg, "maxinclusive")
    \/ Includes(msg, "minexclusive") \/ Includes(msg, "maxexclusive")
    \/ Includes(msg, "totaldigits") \/ Includes(msg, "fractiondigits")
    \/ (Includes(msg, "assertion") /\ Includes(msg, "failed"))
    \/ (Includes(msg, "constraint") /\ Includes(msg, "violated"))
    \/ (Includes(msg, "exceeds") /\ Includes(msg, "maximum"))
    \/ (Includes(msg, "below") /\ Includes(msg, "minimum"))

Rule4Cond(error) ==
  LET msg == LowerMessage(error) IN
    \/ Includes(msg, "not in enumeration")
    \/ (Includes(msg, "not") /\ Includes(msg, "allowed value"))
    \/ (Includes(msg, "not") /\ Includes(msg, "permitted value"))
    \/ Includes(msg, "invalid enumeration")
    \/ (Includes(msg, "value") /\ Includes(msg, "not") /\ Includes(msg, "allowed"))

Rule5Cond(error) ==
  LET msg == LowerMessage(error) IN
    \/ Includes(msg, "unexpected")
    \/ (Includes(msg, "not allowed") /\ ~Includes(msg, "value"))
    \/ (Includes(msg, "not permitted") /\ ~Includes(msg, "value"))
    \/ Includes(msg, "extra element")
    \/ Includes(msg, "unknown element")
    \/ (Includes(msg, "element") /\ Includes(msg, "not expected"))

Rule6Cond(error) ==
  LET msg == LowerMessage(error) IN
    \/ Includes(msg, "encoding error")
    \/ Includes(msg, "decode error")
    \/ (Includes(msg, "character") /\ Includes(msg, "not") /\ Includes(msg, "allowed"))
    \/ Includes(msg, "invalid character")
    \/ Includes(msg, "whitespace")

\* Conditions a caller passes to addRule: a constant true, a function that
\* always throws, and the test suite's message.includes('test').
CustomConditions == {"always", "throws", "includesTest"}

DefaultConditions ==
  {"rule1", "rule2", "rule3", "rule4", "rule5", "rule6", "catchAll"}

\* Outcome of calling the function condition on error: "true", "false" or
\* "throw"
CallCondition(condition, error) ==
  CASE condition = "rule1" -> IF Rule1Cond(error) THEN "true" ELSE "false"
    [] condition = "rule2" -> IF Rule2Cond(error) THEN "true" ELSE "false"
    [] condition = "rule3" -> IF Rule3Cond(error) THEN "true" ELSE "false"
    [] condition = "rule4" -> IF Rule4Cond(error) THEN "true" ELSE "false"
    [] condition = "rule5" -> IF Rule5Cond(error) THEN "true" ELSE "false"
    [] condition = "rule6" -> IF Rule6Cond(error) THEN "true" ELSE "false"
    [] condition = "catchAll" -> "true"
    [] condition = "always" -> "true"
    [] condition = "throws" -> "throw"
    [] condition = "includesTest" ->
         IF Includes(Chars[error.message], "test") THEN "true" ELSE "false"

\* the outcomes of the conditions, tabulated once
ConditionOutcomes ==
  [condition \in DefaultConditions \cup CustomConditions |->
     [error \in Errors \cup ValidatorErrors \cup OverlapErrors |->
        CallCondition(condition, error)]]

\* rule.condition(error) inside the try block of mapError
EvalCond(condition, error) == ConditionOutcomes[condition][error]

-----------------------------------------------------------------------------
(* ErrorMapper *)

MappingRule(condition, evType, priority) ==
  [condition |-> condition, evType |-> evType, priority |-> priority]

DefaultPriority == 100

\* stands for a priority argument that the caller does not pass
Omitted == -1

\* mutant: an omitted priority puts the rule behind the catch-all
PriorityArgLast(priority) ==
  IF priority = Omitted THEN 1001 ELSE priority

\* addRule's parameter `priority: number = 100`
PriorityArg(priority) ==
  IF priority = Omitted THEN DefaultPriority ELSE priority

\* insert r into the sorted sequence s behind every rule whose priority is
\* not greater (what a stable sort does with a rule pushed at the end)
RECURSIVE InsertSorted(_, _)
InsertSorted(s, r) ==
  IF s = <<>> THEN <<r>>
  ELSE IF s[1].priority - r.priority <= 0
         THEN <<s[1]>> \o InsertSorted(Tail(s), r)
         ELSE <<r>> \o s

\* the mutant: the pushed rule stays at the end
SortByPriorityMissing(s) == s

\* this.rules.sort((a, b) => a.priority - b.priority), a stable sort
RECURSIVE SortByPriority(_)
SortByPriority(s) ==
  IF s = <<>> THEN <<>>
  ELSE InsertSorted(SortByPriority(SubSeq(s, 1, Len(s) - 1)), s[Len(s)])

\* the list after addRule(condition, evType, priority)
PushRule(rs, condition, evType, priority) ==
  SortByPriority(Append(rs, MappingRule(condition, evType, priority)))

\* mutant: the enumeration rule comes after the unexpected-content rule, and
\* the missing-content rule after the type rule
DefaultRulesReordered ==
  LET r1 == PushRule(<<>>, "rule1", "NI", 25)
      r2 == PushRule(r1, "rule2", "INV", 20)
      r3 == PushRule(r2, "rule3", "INV", 30)
      r4 == PushRule(r3, "rule4", "OTH", 55)
      r5 == PushRule(r4, "rule5", "NA", 50)
      r6 == PushRule(r5, "rule6", "UNC", 60)
  IN  PushRule(r6, "catchAll", "NI", 1000)

\* the list the constructor builds (initializeDefaultRules)
DefaultRules ==
  LET r1 == PushRule(<<>>, "rule1", "NI", 10)
      r2 == PushRule(r1, "rule2", "INV", 20)
      r3 == PushRule(r2, "rule3", "INV", 30)
      r4 == PushRule(r3, "rule4", "OTH", 40)
      r5 == PushRule(r4, "rule5", "NA", 50)
      r6 == PushRule(r5, "rule6", "UNC", 60)
  IN  PushRule(r6, "catchAll", "NI", 1000)

\* mutant: no try/catch around rule.condition(error)
RECURSIVE MapErrorNoCatchFrom(_, _, _)
MapErrorNoCatchFrom(rs, i, error) ==
  IF i > Len(rs) THEN "NI"
  ELSE LET outcome == EvalCond(rs[i].condition, error) IN
    IF outcome = "true" THEN rs[i].evType
    ELSE IF outcome = "throw" THEN Raised
    ELSE MapErrorNoCatchFrom(rs, i + 1, error)

MapErrorNoCatch(rs, error) == MapErrorNoCatchFrom(rs, 1, error)

\* mutant: the catch block returns the rule's code instead of continuing
RECURSIVE MapErrorCatchMatchesFrom(_, _, _)
MapErrorCatchMatchesFrom(rs, i, error) ==
  IF i > Len(rs) THEN "NI"
  ELSE LET outcome == EvalCond(rs[i].condition, error) IN
    IF outcome \in {"true", "throw"} THEN rs[i].evType
    ELSE MapErrorCatchMatchesFrom(rs, i + 1, error)

MapErrorCatchMatches(rs, error) == MapErrorCatchMatchesFrom(rs, 1, error)

\* mutant: no fallback after the loop
RECURSIVE MapErrorNoFallbackFrom(_, _, _)
MapErrorNoFallbackFrom(rs, i, error) ==
  IF i > Len(rs) THEN Raised
  ELSE LET outcome == EvalCond(rs[i].condition, error) IN
    IF outcome = "true" THEN rs[i].evType
    ELSE MapErrorNoFallbackFrom(rs, i + 1, error)

MapErrorNoFallback(rs, error) == MapErrorNoFallbackFrom(rs, 1, error)

\* the loop of mapError from rule i on: the first rule whose condition returns
\* true decides; a throwing condition is caught and the loop continues; after
\* the loop the result is NI
RECURSIVE MapErrorFrom(_, _, _)
MapErrorFrom(rs, i, error) ==
  IF i > Len(rs) THEN "NI"
  ELSE LET outcome == EvalCond(rs[i].condition, error) IN
    IF outcome = "true" THEN rs[i].evType
    ELSE IF outcome = "throw" THEN MapErrorFrom(rs, i + 1, error)
    ELSE MapErrorFrom(rs, i + 1, error)

\* ErrorMapper.mapError
MapError(rs, error) == MapErrorFrom(rs, 1, error)

\* no summary was asked for
NoSummary ==
  [xpath |-> NoPath, errorType |-> "", reason |-> "",
   exceptionalValueType |-> "none", exceptionalValueName |-> "",
   description |-> ""]

NoMapping ==
  [error |-> Err("", NoPath, ""), code |-> "none", supplied |-> "",
   summary |-> NoSummary]

CustomRuleCount(rs) ==
  Cardinality({i \in 1..Len(rs) : rs[i].condition \in CustomConditions})

-----------------------------------------------------------------------------
(* Document tree (DOM nodes).  Every node carries the same fields; data is  *)
(* the node's character data as a sequence of string pieces read in order.  *)

SDC4_NAMESPACE == "https://semanticdatacharter.com/ns/sdc4/"
DEFAULT_NAMESPACE_PREFIX == "sdc4"

Prefixes == {"sdc4", "custom"}

Elem(ns, prefix, local, attrs, kids) ==
  [kind |-> "elem", ns |-> ns, prefix |-> prefix, local |-> local,
   attrs |-> attrs, kids |-> kids, data |-> <<>>]

TextNode(data) ==
  [kind |-> "text", ns |-> "", prefix |-> "", local |-> "",
   attrs |-> <<>>, kids |-> <<>>, data |-> data]

CommentNode(data) ==
  [kind |-> "comment", ns |-> "", prefix |-> "", local |-> "",
   attrs |-> <<>>, kids |-> <<>>, data |-> data]

Attr(name, value) == [name |-> name, value |-> value]

\* a Document without a documentElement
NoDoc ==
  [kind |-> "none", ns |-> "", prefix |-> "", local |-> "",
   attrs |-> <<>>, kids |-> <<>>, data |-> <<>>]

\* `xmlns:${prefix}`
NsAttrName(prefix) ==
  CASE prefix = "sdc4" -> "xmlns:sdc4"
    [] prefix = "custom" -> "xmlns:custom"

\* EXCEPTIONAL_VALUE_METADATA
EXCEPTIONAL_VALUE_METADATA ==
  [t \in EVTypes |->
    CASE t = "INV" -> [code |-> "INV", name |-> "Invalid", description |->
           "The value does not conform to the expected type, format, or constraints defined in the schema."]
      [] t = "OTH" -> [code |-> "OTH", name |-> "Other", description |->
           "The value is valid but does not match any of the expected enumerated values."]
      [] t = "NI" -> [code |-> "NI", name |-> "No Information", description |->
           "A required value is missing or no information is available."]
      [] t = "NA" -> [code |-> "NA", name |-> "Not Applicable", description |->
           "Content is present but is not expected or applicable in this context."]
      [] t = "UNC" -> [code |-> "UNC", name |-> "Unencoded", description |->
           "The value contains invalid characters or encoding errors."]
      [] t = "UNK" -> [code |-> "UNK", name |-> "Unknown", description |->
           "The value is explicitly marked as unknown."]
      [] t = "ASKU" -> [code |-> "ASKU", name |-> "Asked but Unknown", description |->
           "The information was requested but the respondent did not know the answer."]
      [] t = "ASKR" -> [code |-> "ASKR", name |-> "Asked and Refused", description |->
           "The information was requested but the respondent refused to provide it."]
      [] t = "NASK" -> [code |-> "NASK", name |-> "Not Asked", description |->
           "The information was not requested or collected."]
      [] t = "NAV" -> [code |-> "NAV", name |-> "Not Available", description |->
           "The information is not currently available but may become available later."]
      [] t = "MSK" -> [code |-> "MSK", name |-> "Masked", description |->
           "The data has been hidden or masked for privacy or security reasons."]
      [] t = "DER" -> [code |-> "DER", name |-> "Derived", description |->
           "The value has been calculated or derived from other values."]
      [] t = "PINF" -> [code |-> "PINF", name |-> "Positive Infinity", description |->
           "The numeric value exceeds the maximum representable value."]
      [] t = "NINF" -> [code |-> "NINF", name |-> "Negative Infinity", description |->
           "The numeric value is below the minimum representable value."]
      [] t = "TRC" -> [code |-> "TRC", name |-> "Trace", description |->
           "The value is present in trace amounts (too small to measure accurately)."]]

\* mutant: a marker is told by its prefix
IsExceptionalValueElementByPrefix(node) ==
  /\ node.kind = "elem"
  /\ node.prefix = DEFAULT_NAMESPACE_PREFIX
  /\ node.local \in EVTypes

\* isExceptionalValueElement
IsExceptionalValueElement(node) ==
  /\ node.kind = "elem"
  /\ node.ns # ""
  /\ node.ns = SDC4_NAMESPACE
  /\ node.local \in EVTypes

\* the node at position pos (a sequence of child indices) below node t
RECURSIVE NodeAt(_, _)
NodeAt(t, pos) ==
  IF pos = <<>> THEN t ELSE NodeAt(t.kids[pos[1]], Tail(pos))

\* the tree t with the node at position pos replaced by n
RECURSIVE ReplaceAt(_, _, _)
ReplaceAt(t, pos, n) ==
  IF pos = <<>> THEN n
  ELSE [t EXCEPT !.kids[pos[1]] = ReplaceAt(@, Tail(pos), n)]

NotFound == <<0>>

\* an unprefixed XPath name test: the local name matches and the element is
\* in no namespace
NameTest(node, name) ==
  node.kind = "elem" /\ node.ns = "" /\ node.local = name

\* first node in document order reached from node by the child steps names,
\* looking at the children from index i on; a position relative to node
RECURSIVE SelectSteps(_, _, _)
SelectSteps(node, names, i) ==
  IF names = <<>> THEN <<>>
  ELSE IF i > Len(node.kids) THEN NotFound
  ELSE LET below == IF NameTest(node.kids[i], names[1])
                      THEN SelectSteps(node.kids[i], Tail(names), 1)
                      ELSE NotFound
       IN IF below # NotFound THEN <<i>> \o below
          ELSE SelectSteps(node, names, i + 1)

\* selectSingleNode(expression, doc) for an absolute location path of child
\* steps: the position of the first match below the root element, or NotFound
SelectSingleNode(root, xpath) ==
  LET names == Tail(xpath) IN
    IF xpath = <<>> \/ xpath[1] # "" \/ names = <<>> THEN NotFound
    ELSE IF \E k \in 1..Len(names) : names[k] = "" THEN NotFound
    ELSE IF ~NameTest(root, names[1]) THEN NotFound
    ELSE SelectSteps(root, Tail(names), 1)

\* mutant: "/" is handed to the XPath engine like every other path
FindElementNoRoot(root, xpath) == SelectSingleNode(root, xpath)

\* InstanceModifier.findElement
FindElement(root, xpath) ==
  IF xpath = RootPath \/ xpath = <<"">> THEN <<>>
  ELSE SelectSingleNode(root, xpath)

\* mutant: empty segments are kept
GetParentPathKeepEmpty(xpath) ==
  IF Len(xpath) <= 1 THEN RootPath
  ELSE IF Len(xpath) = 2 THEN RootPath
  ELSE SubSeq(xpath, 1, Len(xpath) - 1)

\* InstanceModifier.getParentPath
GetParentPath(xpath) ==
  LET parts == SelectSeq(xpath, LAMBDA p : p # "") IN
    IF Len(parts) <= 1 THEN RootPath
    ELSE <<"">> \o SubSeq(parts, 1, Len(parts) - 1)

ErrorLocation(xpath, evType, reason) ==
  [xpath |-> xpath, evType |-> evType, reason |-> reason]

\* InstanceModifier.groupErrorsByParent: the Map's entries in insertion order
RECURSIVE GroupErrorsByParent(_)
GroupErrorsByParent(errors) ==
  IF errors = <<>> THEN <<>>
  ELSE
    LET groups == GroupErrorsByParent(SubSeq(errors, 1, Len(errors) - 1))
        error == errors[Len(errors)]
        parentPath == GetParentPath(error.xpath)
        hit == {g \in 1..Len(groups) : groups[g].parentPath = parentPath}
    IN IF hit = {}
         THEN Append(groups, [parentPath |-> parentPath, errors |-> <<error>>])
         ELSE LET g == CHOOSE g \in hit : TRUE
              IN [groups EXCEPT ![g].errors = Append(@, error)]

\* InstanceModifier.createExceptionalValueElement
CreateExceptionalValueElement(error, prefix) ==
  LET metadata == EXCEPTIONAL_VALUE_METADATA[error.evType]
      nameElement == Elem(SDC4_NAMESPACE, prefix, "ev-name", <<>>,
                          <<TextNode(<<metadata.name>>)>>)
  IN Elem(SDC4_NAMESPACE, prefix, metadata.code, <<>>,
          IF error.reason # ""
            THEN <<nameElement,
                   TextNode(<<"\n  ">>),
                   CommentNode(<<" Validation error: ", error.reason, " ">>),
                   TextNode(<<"\n">>)>>
            ELSE <<nameElement>>)

\* mutant: the new element is appended
InsertElementAppended(parent, newElement) ==
  [parent EXCEPT !.kids = Append(@, newElement)]

\* InstanceModifier.insertElement: the parent's children afterwards
InsertElement(parent, newElement) ==
  IF parent.kids # <<>>
    THEN [parent EXCEPT !.kids = <<TextNode(<<"\n  ">>), newElement>> \o @]
    ELSE [parent EXCEPT !.kids = <<newElement>>]

\* mutant: the loop runs over the errors from the last to the first
RECURSIVE InjectErrorsBackwards(_, _, _)
InjectErrorsBackwards(parent, errors, prefix) ==
  IF errors = <<>> THEN parent
  ELSE InsertElement(InjectErrorsBackwards(parent, Tail(errors), prefix),
                     CreateExceptionalValueElement(errors[1], prefix))

\* the loop of injectAtLocation over the errors of one parent
RECURSIVE InjectErrors(_, _, _)
InjectErrors(parent, errors, prefix) ==
  IF errors = <<>> THEN parent
  ELSE InjectErrors(
         InsertElement(parent, CreateExceptionalValueElement(errors[1], prefix)),
         Tail(errors), prefix)

\* InstanceModifier.injectAtLocation
InjectAtLocation(root, parentPath, errors, prefix) ==
  LET pos == FindElement(root, parentPath) IN
    IF pos = NotFound THEN root
    ELSE ReplaceAt(root, pos, InjectErrors(NodeAt(root, pos), errors, prefix))

HasAttribute(node, name) ==
  \E k \in 1..Len(node.attrs) : node.attrs[k].name = name

\* mutant: the declaration is added without looking for one
EnsureSDC4NamespaceUnchecked(root, prefix) ==
  [root EXCEPT !.attrs = Append(@, Attr(NsAttrName(prefix), SDC4_NAMESPACE))]

\* ensureSDC4Namespace
EnsureSDC4Namespace(root, prefix) ==
  IF ~HasAttribute(root, NsAttrName(prefix))
    THEN [root EXCEPT !.attrs = Append(@, Attr(NsAttrName(prefix), SDC4_NAMESPACE))]
    ELSE root

\* mutant: the first parent path that selects nothing ends the batch
RECURSIVE InjectGroupsUntilUnresolved(_, _, _)
InjectGroupsUntilUnresolved(root, groups, prefix) ==
  IF groups = <<>> THEN root
  ELSE IF FindElement(root, groups[1].parentPath) = NotFound THEN root
  ELSE InjectGroupsUntilUnresolved(
         InjectAtLocation(root, groups[1].parentPath, groups[1].errors, prefix),
         Tail(groups), prefix)

\* the loop of injectExceptionalValues over the groups
RECURSIVE InjectGroups(_, _, _)
InjectGroups(root, groups, prefix) ==
  IF groups = <<>> THEN root
  ELSE InjectGroups(
         InjectAtLocation(root, groups[1].parentPath, groups[1].errors, prefix),
         Tail(groups), prefix)

\* InstanceModifier.injectExceptionalValues
InjectExceptionalValues(root, errors, prefix) ==
  InjectGroups(EnsureSDC4Namespace(root, prefix),
               GroupErrorsByParent(errors), prefix)

\* mutant: nothing is removed
RemoveExceptionalValuesNothing(node) == node

\* removeExceptionalValues: every marker element is detached from its parent
RECURSIVE RemoveExceptionalValues(_)
RECURSIVE RemoveFromChildren(_)
RemoveFromChildren(kids) ==
  IF kids = <<>> THEN <<>>
  ELSE IF IsExceptionalValueElement(kids[1]) THEN RemoveFromChildren(Tail(kids))
  ELSE <<RemoveExceptionalValues(kids[1])>> \o RemoveFromChildren(Tail(kids))

\* the root is walked first: a root that is a marker is detached from the
\* Document, and a Document without a root is left alone
RemoveExceptionalValues(node) ==
  IF node.kind = "none" THEN node
  ELSE IF IsExceptionalValueElement(node) THEN NoDoc
  ELSE [node EXCEPT !.kids = RemoveFromChildren(@)]

\* what parsing a serialized child list gives: adjacent text nodes arrive as
\* one text node, an empty text node as none
RECURSIVE MergeText(_)
MergeText(kids) ==
  IF kids = <<>> THEN <<>>
  ELSE LET rest == MergeText(Tail(kids)) IN
    IF kids[1].kind = "text" /\ kids[1].data = <<>> THEN rest
    ELSE IF kids[1].kind = "text" /\ rest # <<>> /\ rest[1].kind = "text"
      THEN <<TextNode(kids[1].data \o rest[1].data)>> \o Tail(rest)
    ELSE <<kids[1]>> \o rest

\* cloneDocument: serializeToString followed by parseFromString
RECURSIVE CloneDocument(_)
RECURSIVE CloneChildren(_)
CloneChildren(kids) ==
  IF kids = <<>> THEN <<>>
  ELSE <<CloneDocument(kids[1])>> \o CloneChildren(Tail(kids))

CloneDocument(node) ==
  [node EXCEPT !.kids = CloneChildren(MergeText(@))]

-----------------------------------------------------------------------------
(* Schema loading and caching (src/core/schema.ts).  A schema source is a   *)
(* string, a Buffer or an already parsed object; the text of a string or a  *)
(* Buffer is the sequence of its characters.                                *)

\* source.substring(0, 100): the length of the content fingerprint
KeyPrefixLen == 100

StringSource(text) == [type |-> "string", text |-> text]
BufferSource(text) == [type |-> "buffer", text |-> text]
ObjectSource(text) == [type |-> "object", text |-> text]

Whitespace == {" ", "\n", "\t", "\r"}

\* String.prototype.trim, as far as startsWith looks: the leading whitespace
\* is dropped
RECURSIVE TrimStart(_)
TrimStart(text) ==
  IF text # <<>> /\ text[1] \in Whitespace THEN TrimStart(Tail(text)) ELSE text

\* source.trim().startsWith('<')
LooksLikeMarkup(text) ==
  LET t == TrimStart(text) IN t # <<>> /\ t[1] = "<"

\* s.substring(0, n)
Substring0(text, n) == SubSeq(text, 1, IF Len(text) < n THEN Len(text) ELSE n)

\* `content:${source.substring(0, 100)}`
ContentKey(text) ==
  [kind |-> "content", text |-> Substring0(text, KeyPrefixLen)]

\* `file:${source}`
FileKey(path) == [kind |-> "file", text |-> path]

\* the cache key loadSchema computes for a string or Buffer source
CacheKeyOf(source) ==
  IF source.type = "string" /\ ~LooksLikeMarkup(source.text)
    THEN FileKey(source.text)
    ELSE ContentKey(source.text)

\* the source is a path whose file loadSchema reads
ReadsFile(source) ==
  source.type = "string" /\ ~LooksLikeMarkup(source.text)

NoFile == <<"ENOENT">>

\* mutant: the cache never answers
CacheHasNever(cache, key) == FALSE

\* SchemaCache.has
CacheHas(cache, key) == key \in DOMAIN cache

\* SchemaCache.set
CacheSet(cache, key, value) ==
  [k \in DOMAIN cache \cup {key} |-> IF k = key THEN value ELSE cache[k]]

EmptyCache == [k \in {} |-> <<>>]

\* loadSchema from the point where the content is known: the content-key
\* check, the "parse" and the store.  The result and the cache afterwards.
LoadContent(cache, key, content, useCache) ==
  IF useCache /\ CacheHas(cache, key)
    THEN [outcome |-> "ok", value |-> cache[key], cache |-> cache]
    ELSE [outcome |-> "ok", value |-> content,
          cache |-> IF useCache THEN CacheSet(cache, key, content) ELSE cache]

\* loadSchema run without interruption: the result, or the rejection of
\* readFile, and the cache afterwards
LoadSchema(cache, fs, source, useCache) ==
  IF source.type = "object"
    THEN [outcome |-> "ok", value |-> source.text, cache |-> cache]
  ELSE IF ReadsFile(source)
    THEN IF useCache /\ CacheHas(cache, FileKey(source.text))
           THEN [outcome |-> "ok", value |-> cache[FileKey(source.text)],
                 cache |-> cache]
         ELSE IF fs[source.text] = NoFile
           THEN [outcome |-> "reject", value |-> NoFile, cache |-> cache]
         ELSE LoadContent(cache, FileKey(source.text), fs[source.text], useCache)
  ELSE LoadContent(cache, ContentKey(source.text), source.text, useCache)

\* Schema texts: two that agree on their first KeyPrefixLen characters and
\* differ after them, and a short one
SchemaHead == [i \in 1..KeyPrefixLen |-> IF i = 1 THEN "<" ELSE "s"]
SchemaTextA == SchemaHead \o <<"A", ">">>
SchemaTextB == SchemaHead \o <<"B", ">">>
SchemaTextShort == <<" ", "<", "x", "/", ">">>

SchemaPath == <<"a", ".", "x", "s", "d">>
OtherSchemaPath == <<"b", ".", "x", "s", "d">>
MissingPath == <<"n", "o", ".", "x", "s", "d">>
OutputPath == <<"o", "u", "t", ".", "x", "m", "l">>

Paths == {SchemaPath, OtherSchemaPath, MissingPath, OutputPath}

InitialFiles ==
  [p \in Paths |->
     IF p = SchemaPath THEN SchemaTextA
     ELSE IF p = OtherSchemaPath THEN SchemaTextB
     ELSE NoFile]

\* what a caller hands to loadSchema
SchemaSources ==
  { StringSource(SchemaTextA), StringSource(SchemaTextB),
    StringSource(SchemaTextShort), BufferSource(SchemaTextA),
    StringSource(SchemaPath), StringSource(OtherSchemaPath),
    StringSource(MissingPath), ObjectSource(<<"parsed">>) }

Loads == {"l1", "l2"}

IdleLoad ==
  [pc |-> "idle", source |-> ObjectSource(<<>>), useCache |-> TRUE,
   outcome |-> "none", value |-> <<>>, fileRead |-> FALSE]

-----------------------------------------------------------------------------
(* SDC4Validator (src/sdc4/validator.ts) *)

Calls == {"c1", "c2"}
SourceRefs == {"src1", "src2"}

\* the Document a call's cloneDocument allocates
CloneRef(c) == IF c = "c1" THEN "clone_c1" ELSE "clone_c2"

DocRefs == SourceRefs \cup {CloneRef(c) : c \in Calls}

\* <root><person><name>John</name></person></root>
PersonDoc ==
  Elem("", "", "root", <<>>,
    <<Elem("", "", "person", <<>>,
        <<Elem("", "", "name", <<>>, <<TextNode(<<"John">>)>>)>>)>>)

\* the same document as a recovery pass with prefix sdc4 left it, with an
\* sdc4:NI marker under <person>
MarkedDoc ==
  Elem("", "", "root", <<Attr("xmlns:sdc4", SDC4_NAMESPACE)>>,
    <<Elem("", "", "person", <<>>,
        <<TextNode(<<"\n  ">>),
          Elem(SDC4_NAMESPACE, "sdc4", "NI", <<>>,
               <<Elem(SDC4_NAMESPACE, "sdc4", "ev-name", <<>>,
                      <<TextNode(<<"No Information">>)>>)>>),
          Elem("", "", "name", <<>>, <<TextNode(<<"John">>)>>)>>)>>)

InitialHeap ==
  [r \in DocRefs |->
     IF r = "src1" THEN PersonDoc ELSE IF r = "src2" THEN MarkedDoc ELSE NoDoc]

RECURSIVE SeqsUpTo(_, _)
SeqsUpTo(S, n) ==
  IF n = 0 THEN {<<>>}
  ELSE LET shorter == SeqsUpTo(S, n - 1)
       IN shorter \cup {Append(s, x) : s \in shorter, x \in S}

ErrorLists == SeqsUpTo(ValidatorErrors, MaxErrors)

\* the constructor's switch over options.validation
ModeOfOption(option) ==
  CASE option = "strict" -> "strict"
    [] option = "skip" -> "skip"
    [] OTHER -> "lax"

ValidationOptions == {"strict", "lax", "skip", "undefined"}

\* the ErrorMapper handed to the constructor (options.errorMapper) or the
\* default one
MapperConfigs ==
  { DefaultRules,
    <<>>,
    PushRule(DefaultRules, "throws", "MSK", 1),
    PushRule(DefaultRules, "includesTest", "UNK", DefaultPriority) }

InitTypeCounts == [t \in EVTypes |-> 0]

NoError == <<>>

NoResult ==
  [kind |-> "none", doc |-> "none", count |-> 0, first |-> "",
   valid |-> FALSE, errorCount |-> 0, errors |-> <<>>, counts |-> InitTypeCounts,
   error |-> NoError]

IdleCall ==
  [op |-> "none", pc |-> "idle", source |-> "none", removeExistingEV |-> TRUE,
   outputPath |-> <<>>,
   doc |-> "none", modifiedDoc |-> "none", errors |-> <<>>, next |-> 1,
   validateCount |-> 0, yielded |-> <<>>, collected |-> <<>>,
   typeCounts |-> InitTypeCounts, result |-> NoResult]

\* error.path || '/'
PathOrRoot(error) ==
  IF error.path = NoPath \/ error.path = <<"">> THEN RootPath ELSE error.path

\* mutant: the supplied code is ignored and the path is taken as it is
GetErrorSummaryRemapped(rs, error, evType) ==
  LET metadata == EXCEPTIONAL_VALUE_METADATA[MapError(rs, error)]
  IN [xpath |-> error.path,
      errorType |-> IF error.type # "" THEN error.type ELSE "validation-error",
      reason |-> error.message,
      exceptionalValueType |-> metadata.code,
      exceptionalValueName |-> metadata.name,
      description |-> metadata.description]

\* ErrorMapper.getErrorSummary; evType "" stands for an omitted argument
GetErrorSummary(rs, error, evType) ==
  LET mappedType == IF evType # "" THEN evType ELSE MapError(rs, error)
      metadata == EXCEPTIONAL_VALUE_METADATA[mappedType]
  IN [xpath |-> PathOrRoot(error),
      errorType |-> IF error.type # "" THEN error.type ELSE "validation-error",
      reason |-> error.message,
      exceptionalValueType |-> metadata.code,
      exceptionalValueName |-> metadata.name,
      description |-> metadata.description]

\* errors.map(...) in validateWithRecovery
RECURSIVE ErrorLocations(_, _)
ErrorLocations(rs, errors) ==
  IF errors = <<>> THEN <<>>
  ELSE <<ErrorLocation(PathOrRoot(errors[1]), MapError(rs, errors[1]),
                       errors[1].message)>>
       \o ErrorLocations(rs, Tail(errors))

\* mutant: the clone is the document itself
CloneTargetAliased(c, docRef) == docRef

\* mutant: every call works on the same clone
CloneTargetShared(c, docRef) == "clone_c1"

\* the Document that cloneDocument(doc) returns: a new one
CloneTarget(c, docRef) == CloneRef(c)

\* mutant: skip mode is not honoured
SkipsValidationNever(mode) == FALSE

\* this.validationMode === ValidationMode.SKIP
SkipsValidation(mode) == mode = "skip"

\* mutant: a single error does not fail
StrictFailsOffByOne(mode, errors) == mode = "strict" /\ Len(errors) > 1

\* this.validationMode === ValidationMode.STRICT && errors.length > 0
StrictFails(mode, errors) == mode = "strict" /\ Len(errors) > 0

\* mutant: NI is missing from the counters
CountTypeDropsNI(counts, evType) ==
  IF evType \in DOMAIN counts /\ evType # "NI"
    THEN [counts EXCEPT ![evType] = @ + 1] ELSE counts

\* if (evType in typeCounts) typeCounts[evType]++
CountType(counts, evType) ==
  IF evType \in DOMAIN counts THEN [counts EXCEPT ![evType] = @ + 1] ELSE counts

\* mutant: the loop stops one element early
IterDoneEarly(call) == call.next >= Len(call.errors)

\* for (const error of errors): no element is left
IterDone(call) == call.next > Len(call.errors)

\* the report validateAndReport returns
ReportResult(call) ==
  [NoResult EXCEPT !.kind = "report",
                   !.valid = (Len(call.collected) = 0),
                   !.errorCount = Len(call.collected),
                   !.errors = call.collected,
                   !.counts = call.typeCounts]

\* the generator ran to its end; validateAndReport's loop ends with it
Finish(call) ==
  IF call.op = "report"
    THEN [call EXCEPT !.pc = "done", !.result = ReportResult(call)]
    ELSE [call EXCEPT !.pc = "done"]

\* mutant: the validator is invoked again for every element
ResumeRevalidating(call, rs) ==
  IF IterDone(call) THEN Finish(call)
  ELSE LET error == call.errors[call.next]
           evType == MapError(rs, error)
       IN [call EXCEPT !.yielded = Append(@, GetErrorSummary(rs, error, evType)),
                       !.next = @ + 1,
                       !.validateCount = @ + 1,
                       !.pc = "yielded"]

\* mutant: every element is classified with the rules of the constructor
ResumeDefaultRules(call, rs) ==
  IF IterDone(call) THEN Finish(call)
  ELSE LET error == call.errors[call.next]
           evType == MapError(DefaultRules, error)
       IN [call EXCEPT !.yielded =
                         Append(@, GetErrorSummary(DefaultRules, error, evType)),
                       !.next = @ + 1,
                       !.pc = "yielded"]

\* the generator body runs on to its next yield or to its end
Resume(call, rs) ==
  IF IterDone(call) THEN Finish(call)
  ELSE LET error == call.errors[call.next]
           evType == MapError(rs, error)
       IN [call EXCEPT !.yielded = Append(@, GetErrorSummary(rs, error, evType)),
                       !.next = @ + 1,
                       !.pc = "yielded"]

\* the methods that run validateWithRecovery: itself and saveRecoveredXML
RecoverOps == {"recover", "save"}

\* validateWithRecovery returns result; saveRecoveredXML, which awaited it,
\* serializes the document and goes on to `await writeFile`
Return(call, result) ==
  IF call.op = "save" /\ result.kind = "doc"
    THEN [call EXCEPT !.pc = "write"]
    ELSE [call EXCEPT !.pc = "done", !.result = result]

\* mutant: the failure is swallowed and the method returns what it has
RejectSwallowed(call, e) ==
  IF call.op \in RecoverOps
    THEN Return(call, [NoResult EXCEPT !.kind = "doc", !.doc = call.modifiedDoc])
    ELSE Finish(call)

\* an awaited promise rejected with e: no method has a try block, so the
\* method's own promise rejects with e
Reject(call, e) ==
  [call EXCEPT !.pc = "done",
               !.result = [NoResult EXCEPT !.kind = "reject", !.error = e]]

\* the rejections of the external validator's validate()
ValidatorFailures == {<<"malformed schema">>, <<"fatal parser error">>}

\* XMLSerializer.serializeToString: the markup of a node, piece by piece
RECURSIVE SerializeToString(_)
RECURSIVE SerializeChildren(_)
RECURSIVE SerializeAttrs(_)
SerializeAttrs(attrs) ==
  IF attrs = <<>> THEN <<>>
  ELSE <<" ", attrs[1].name, "=\"", attrs[1].value, "\"">>
       \o SerializeAttrs(Tail(attrs))

SerializeChildren(kids) ==
  IF kids = <<>> THEN <<>>
  ELSE SerializeToString(kids[1]) \o SerializeChildren(Tail(kids))

SerializeToString(node) ==
  CASE node.kind = "text" -> node.data
    [] node.kind = "comment" -> <<"<!--">> \o node.data \o <<"-->">>
    [] node.kind = "none" -> <<>>
    [] OTHER ->
       LET qname == IF node.prefix = "" THEN <<node.local>>
                    ELSE <<node.prefix, ":", node.local>>
       IN IF node.kids = <<>>
            THEN <<"<">> \o qname \o SerializeAttrs(node.attrs) \o <<"/>">>
            ELSE <<"<">> \o qname \o SerializeAttrs(node.attrs) \o <<">">>
                 \o SerializeChildren(node.kids)
                 \o <<"</">> \o qname \o <<">">>

\* serializeXML with saveRecoveredXML's default options: the declaration is
\* put in front (the serializer writes none), then formatXML lays the markup
\* out, which is kept here as a mark on the content
SerializeXML(node) ==
  [declaration |-> "<?xml version=\"1.0\" encoding=\"UTF-8\"?>\n",
   markup |-> SerializeToString(node),
   prettyPrint |-> TRUE]

-----------------------------------------------------------------------------
(* Actions of ErrorMapper *)

\* ErrorMapper.addRule
AddRule(condition, evType, priority) ==
  /\ CustomRuleCount(rules) < MaxCustomRules
  /\ rules' = PushRule(rules, condition, evType, PriorityArg(priority))
  /\ UNCHANGED <<mapped, validationMode, namespacePrefix, heap, calls, ioVars, callerVars>>

\* ErrorMapper.clearRules
ClearRules ==
  /\ rules # <<>>
  /\ rules' = <<>>
  /\ UNCHANGED <<mapped, validationMode, namespacePrefix, heap, calls, ioVars, callerVars>>

\* a call of ErrorMapper.mapError
MapErrorOp(error) ==
  /\ mapped' = [NoMapping EXCEPT !.error = error, !.code = MapError(rules, error)]
  /\ UNCHANGED <<rules, validationMode, namespacePrefix, heap, calls, ioVars, callerVars>>

\* mapper.getErrorSummary(error, evType), evType "" when it is omitted
GetErrorSummaryOp(error, evType) ==
  /\ mapped' = [error |-> error,
                code |-> GetErrorSummary(rules, error, evType).exceptionalValueType,
                supplied |-> evType,
                summary |-> GetErrorSummary(rules, error, evType)]
  /\ UNCHANGED <<rules, validationMode, namespacePrefix, heap, calls, ioVars, callerVars>>

-----------------------------------------------------------------------------
(* Actions of SDC4Validator.validateWithRecovery; a call is suspended at    *)
(* each await                                                               *)

\* the call, up to `await parseXML(xmlSource)`
RecoverCall(c, src, removeExistingEV) ==
  /\ calls[c].op = "none"
  /\ calls' = [calls EXCEPT ![c] =
       [@ EXCEPT !.op = "recover", !.pc = "parse", !.source = src,
                 !.removeExistingEV = removeExistingEV]]
  /\ UNCHANGED <<rules, mapped, validationMode, namespacePrefix, heap, ioVars, callerVars>>

\* parseXML resolved (a Document source is returned as it is): clone, remove
\* the existing markers, return in skip mode, else `await loadSchema`
RecoverParsed(c) ==
  LET call == calls[c]
      doc == call.source
      modifiedDoc == CloneTarget(c, doc)
      clone == CloneDocument(heap[doc])
      stripped == IF call.removeExistingEV
                    THEN RemoveExceptionalValues(clone) ELSE clone
  IN
  /\ call.op \in RecoverOps /\ call.pc = "parse"
  /\ heap' = [heap EXCEPT ![modifiedDoc] = stripped]
  /\ calls' = [calls EXCEPT ![c] =
       IF SkipsValidation(validationMode)
         THEN Return([call EXCEPT !.doc = doc, !.modifiedDoc = modifiedDoc],
                     [NoResult EXCEPT !.kind = "doc", !.doc = modifiedDoc])
         ELSE [call EXCEPT !.doc = doc, !.modifiedDoc = modifiedDoc,
                           !.pc = "load"]]
  /\ UNCHANGED <<rules, mapped, validationMode, namespacePrefix, ioVars, callerVars>>

\* loadSchema(this.schema) resolved: the validator is invoked,
\* `await validate(...)`
RecoverSchemaLoaded(c) ==
  LET loaded == LoadSchema(schemaCache, files, schema, TRUE) IN
  /\ calls[c].op \in RecoverOps /\ calls[c].pc = "load"
  /\ loaded.outcome = "ok"
  /\ schemaCache' = loaded.cache
  /\ calls' = [calls EXCEPT ![c] =
       [@ EXCEPT !.pc = "validate", !.validateCount = @ + 1]]
  /\ UNCHANGED <<rules, mapped, validationMode, namespacePrefix, heap, files,
                 callerVars>>

\* loadSchema(this.schema) rejected: so does the method
RecoverSchemaFailed(c) ==
  LET loaded == LoadSchema(schemaCache, files, schema, TRUE) IN
  /\ calls[c].op \in RecoverOps /\ calls[c].pc = "load"
  /\ loaded.outcome = "reject"
  /\ calls' = [calls EXCEPT ![c] = Reject(@, loaded.value)]
  /\ UNCHANGED <<rules, mapped, validationMode, namespacePrefix, heap, ioVars,
                 callerVars>>

\* the validator's validate() rejected with e: so does the method
RecoverValidateFailed(c, e) ==
  /\ calls[c].op \in RecoverOps /\ calls[c].pc = "validate"
  /\ calls' = [calls EXCEPT ![c] = Reject(@, e)]
  /\ UNCHANGED <<rules, mapped, validationMode, namespacePrefix, heap, ioVars,
                 callerVars>>

\* the validator returned errs: throw in strict mode, else map, inject, return
RecoverValidated(c, errs) ==
  LET call == calls[c] IN
  /\ call.op \in RecoverOps /\ call.pc = "validate"
  /\ IF StrictFails(validationMode, errs)
       THEN /\ calls' = [calls EXCEPT ![c] =
                 [call EXCEPT !.errors = errs, !.pc = "done",
                              !.result = [NoResult EXCEPT
                                            !.kind = "throw",
                                            !.count = Len(errs),
                                            !.first = errs[1].message]]]
            /\ heap' = heap
       ELSE /\ calls' = [calls EXCEPT ![c] =
                 Return([call EXCEPT !.errors = errs],
                        [NoResult EXCEPT !.kind = "doc",
                                         !.doc = call.modifiedDoc])]
            /\ heap' = IF Len(errs) > 0
                 THEN [heap EXCEPT ![call.modifiedDoc] =
                         InjectExceptionalValues(@, ErrorLocations(rules, errs),
                                                 namespacePrefix)]
                 ELSE heap
  /\ UNCHANGED <<rules, mapped, validationMode, namespacePrefix, ioVars, callerVars>>

\* saveRecoveredXML(outputPath, xmlSource): it starts validateWithRecovery
\* with removeExistingEV at its default
SaveCall(c, out, src) ==
  /\ calls[c].op = "none"
  /\ calls' = [calls EXCEPT ![c] =
       [@ EXCEPT !.op = "save", !.pc = "parse", !.source = src,
                 !.removeExistingEV = TRUE, !.outputPath = out]]
  /\ UNCHANGED <<rules, mapped, validationMode, namespacePrefix, heap, ioVars,
                 callerVars>>

\* writeFile resolved: the file holds the serialized document
SaveWritten(c) ==
  LET call == calls[c] IN
  /\ call.op = "save" /\ call.pc = "write"
  /\ files' = [files EXCEPT ![call.outputPath] =
                 SerializeXML(heap[call.modifiedDoc])]
  /\ calls' = [calls EXCEPT ![c] =
       [call EXCEPT !.pc = "done", !.result = [NoResult EXCEPT !.kind = "saved"]]]
  /\ UNCHANGED <<rules, mapped, validationMode, namespacePrefix, heap,
                 schemaCache, callerVars>>

-----------------------------------------------------------------------------
(* Actions of SDC4Validator.iterErrorsWithMapping (an async generator) and  *)
(* of validateAndReport, which drives one                                   *)

\* iterErrorsWithMapping(xmlSource): the generator object is created, its
\* body has not started
IterCall(c, src) ==
  /\ calls[c].op = "none"
  /\ calls' = [calls EXCEPT ![c] =
       [@ EXCEPT !.op = "iter", !.pc = "created", !.source = src]]
  /\ UNCHANGED <<rules, mapped, validationMode, namespacePrefix, heap, ioVars, callerVars>>

\* validateAndReport(xmlSource): the counters are set up and the loop asks
\* the generator for its first element, which runs it to `await parseXML`
ReportCall(c, src) ==
  /\ calls[c].op = "none"
  /\ calls' = [calls EXCEPT ![c] =
       [@ EXCEPT !.op = "report", !.pc = "parse", !.source = src]]
  /\ UNCHANGED <<rules, mapped, validationMode, namespacePrefix, heap, ioVars, callerVars>>

\* the consumer asks for the next element
IterPull(c) ==
  LET call == calls[c] IN
  /\ call.op = "iter" /\ call.pc \in {"created", "yielded"}
  /\ calls' = [calls EXCEPT ![c] =
       IF call.pc = "created" THEN [call EXCEPT !.pc = "parse"]
       ELSE Resume(call, rules)]
  /\ UNCHANGED <<rules, mapped, validationMode, namespacePrefix, heap, ioVars, callerVars>>

\* the consumer leaves its loop early: the generator is closed
IterReturn(c) ==
  /\ calls[c].op = "iter" /\ calls[c].pc \in {"created", "yielded"}
  /\ calls' = [calls EXCEPT ![c] = [@ EXCEPT !.pc = "done"]]
  /\ UNCHANGED <<rules, mapped, validationMode, namespacePrefix, heap, ioVars, callerVars>>

\* parseXML resolved: return in skip mode, else `await loadSchema`
GenParsed(c) ==
  LET call == calls[c] IN
  /\ call.op \in {"iter", "report"} /\ call.pc = "parse"
  /\ calls' = [calls EXCEPT ![c] =
       IF SkipsValidation(validationMode)
         THEN Finish([call EXCEPT !.doc = call.source])
         ELSE [call EXCEPT !.doc = call.source, !.pc = "load"]]
  /\ UNCHANGED <<rules, mapped, validationMode, namespacePrefix, heap, ioVars, callerVars>>

\* loadSchema(this.schema) resolved: the validator is invoked,
\* `await validate(...)`
GenSchemaLoaded(c) ==
  LET loaded == LoadSchema(schemaCache, files, schema, TRUE) IN
  /\ calls[c].op \in {"iter", "report"} /\ calls[c].pc = "load"
  /\ loaded.outcome = "ok"
  /\ schemaCache' = loaded.cache
  /\ calls' = [calls EXCEPT ![c] =
       [@ EXCEPT !.pc = "validate", !.validateCount = @ + 1]]
  /\ UNCHANGED <<rules, mapped, validationMode, namespacePrefix, heap, files,
                 callerVars>>

\* loadSchema(this.schema) rejected: the generator throws, and with it the
\* pending request for an element and validateAndReport's loop
GenSchemaFailed(c) ==
  LET loaded == LoadSchema(schemaCache, files, schema, TRUE) IN
  /\ calls[c].op \in {"iter", "report"} /\ calls[c].pc = "load"
  /\ loaded.outcome = "reject"
  /\ calls' = [calls EXCEPT ![c] = Reject(@, loaded.value)]
  /\ UNCHANGED <<rules, mapped, validationMode, namespacePrefix, heap, ioVars,
                 callerVars>>

\* the validator's validate() rejected with e
GenValidateFailed(c, e) ==
  /\ calls[c].op \in {"iter", "report"} /\ calls[c].pc = "validate"
  /\ calls' = [calls EXCEPT ![c] = Reject(@, e)]
  /\ UNCHANGED <<rules, mapped, validationMode, namespacePrefix, heap, ioVars,
                 callerVars>>

\* the validator returned errs: the loop starts and yields its first element
GenValidated(c, errs) ==
  LET call == calls[c] IN
  /\ call.op \in {"iter", "report"} /\ call.pc = "validate"
  /\ calls' = [calls EXCEPT ![c] = Resume([call EXCEPT !.errors = errs], rules)]
  /\ UNCHANGED <<rules, mapped, validationMode, namespacePrefix, heap, ioVars, callerVars>>

\* the loop body of validateAndReport for the element just yielded, then the
\* request for the next one
ReportConsume(c) ==
  LET call == calls[c]
      error == call.yielded[Len(call.yielded)]
  IN
  /\ call.op = "report" /\ call.pc = "yielded"
  /\ calls' = [calls EXCEPT ![c] =
       Resume([call EXCEPT
                 !.collected = Append(@, error),
                 !.typeCounts = CountType(@, error.exceptionalValueType)],
              rules)]
  /\ UNCHANGED <<rules, mapped, validationMode, namespacePrefix, heap, ioVars, callerVars>>

-----------------------------------------------------------------------------
(* Actions of a caller that uses InstanceModifier, ensureSDC4Namespace and  *)
(* removeExceptionalValues on its own Document                              *)

\* the caller's Document
TreeRef == "src1"

\* <root id="r1" xmlns:ev="..."> with markers under three prefixes, one of
\* them inside another, and two elements that only look like markers: an
\* element NI in no namespace and an ev-name in the marker namespace
NestedDoc ==
  Elem("", "", "root",
       <<Attr("id", "r1"), Attr("xmlns:ev", SDC4_NAMESPACE)>>,
    <<Elem(SDC4_NAMESPACE, "ev", "INV", <<>>,
        <<Elem(SDC4_NAMESPACE, "ev", "ev-name", <<>>, <<TextNode(<<"Invalid">>)>>),
          Elem(SDC4_NAMESPACE, "sdc4", "NI",
               <<Attr("xmlns:sdc4", SDC4_NAMESPACE)>>,
               <<Elem("", "", "inner", <<>>, <<>>)>>)>>),
      TextNode(<<"\n">>),
      Elem("", "", "person", <<Attr("id", "p1")>>,
        <<Elem("", "", "NI", <<>>, <<>>),
          Elem(SDC4_NAMESPACE, "ev", "ev-name", <<>>, <<>>),
          Elem(SDC4_NAMESPACE, "custom", "TRC",
               <<Attr("xmlns:custom", SDC4_NAMESPACE)>>, <<>>),
          Elem("", "", "name", <<>>, <<TextNode(<<"John">>)>>)>>)>>)

\* <root><person/></root>
ChildlessDoc ==
  Elem("", "", "root", <<>>, <<Elem("", "", "person", <<>>, <<>>)>>)

\* a Document whose root element is itself a marker
MarkerRootDoc ==
  Elem(SDC4_NAMESPACE, "sdc4", "NI", <<Attr("xmlns:sdc4", SDC4_NAMESPACE)>>,
    <<Elem("", "", "name", <<>>, <<>>)>>)

TreeDocs == {PersonDoc, MarkedDoc, NestedDoc, ChildlessDoc, MarkerRootDoc}

\* the ErrorLocations the caller injects: two under <person>, the second
\* without a reason, one whose parent path selects nothing, one at the root
AgeLocation == ErrorLocation(<<"", "root", "person", "age">>, "INV", "bad age")
EmailLocation == ErrorLocation(<<"", "root", "person", "email">>, "OTH", "")
LostLocation == ErrorLocation(<<"", "nope", "x">>, "NI", "gone")
RootLocation == ErrorLocation(<<"", "root">>, "NA", "at the root")

\* a location whose xpath is "/" and one whose xpath ends with a separator
\* ("/root/person/")
SlashLocation == ErrorLocation(RootPath, "MSK", "Root level error")
TrailingLocation == ErrorLocation(<<"", "root", "person", "">>, "UNK", "")

\* the batches handed to injectExceptionalValues
Batches ==
  { <<>>,
    <<AgeLocation>>,
    <<LostLocation>>,
    <<RootLocation>>,
    <<AgeLocation, EmailLocation>>,
    <<LostLocation, AgeLocation>>,
    <<EmailLocation, LostLocation, RootLocation>>,
    <<SlashLocation>>,
    <<SlashLocation, AgeLocation>>,
    <<TrailingLocation, RootLocation, SlashLocation>> }

\* the calls of findElement that one injectExceptionalValues makes:
\* injectAtLocation runs once for each entry of the map and looks its parent
\* up once
FindElementCalls(errors) == Len(GroupErrorsByParent(errors))

IdleDirect ==
  [count |-> 0, op |-> "none", errors |-> <<>>, prefix |-> "",
   before |-> NoDoc, outcome |-> "none", lookups |-> 0]

Done(op, errors, prefix, outcome) ==
  [count |-> direct.count + 1, op |-> op, errors |-> errors, prefix |-> prefix,
   before |-> heap[TreeRef], outcome |-> outcome, lookups |-> 0]

\* modifier.injectExceptionalValues(doc, errors); ensureSDC4Namespace throws
\* when the Document has no root element
InjectOp(errors) ==
  /\ direct.count < MaxOps
  /\ IF heap[TreeRef].kind = "none"
       THEN /\ heap' = heap
            /\ direct' = Done("inject", errors, namespacePrefix, "throw")
       ELSE /\ heap' = [heap EXCEPT ![TreeRef] =
                 InjectExceptionalValues(@, errors, namespacePrefix)]
            /\ direct' = [Done("inject", errors, namespacePrefix, "ok")
                             EXCEPT !.lookups = FindElementCalls(errors)]
  /\ UNCHANGED <<rules, mapped, validationMode, namespacePrefix, calls, ioVars,
                 schema, loads, cli>>

\* removeExceptionalValues(doc)
RemoveOp ==
  /\ direct.count < MaxOps
  /\ heap' = [heap EXCEPT ![TreeRef] = RemoveExceptionalValues(@)]
  /\ direct' = Done("remove", <<>>, "", "ok")
  /\ UNCHANGED <<rules, mapped, validationMode, namespacePrefix, calls, ioVars,
                 schema, loads, cli>>

\* ensureSDC4Namespace(doc, prefix)
EnsureOp(prefix) ==
  /\ direct.count < MaxOps
  /\ IF heap[TreeRef].kind = "none"
       THEN /\ heap' = heap
            /\ direct' = Done("ensure", <<>>, prefix, "throw")
       ELSE /\ heap' = [heap EXCEPT ![TreeRef] = EnsureSDC4Namespace(@, prefix)]
            /\ direct' = Done("ensure", <<>>, prefix, "ok")
  /\ UNCHANGED <<rules, mapped, validationMode, namespacePrefix, calls, ioVars,
                 schema, loads, cli>>

-----------------------------------------------------------------------------
(* Actions of loadSchema and clearSchemaCache, called directly *)

\* loadSchema(source, useCache) up to its return or to `await readFile`
LoadCall(l, source, useCache) ==
  /\ loads[l].pc = "idle"
  /\ IF ReadsFile(source)
          /\ ~(useCache /\ CacheHas(schemaCache, FileKey(source.text)))
       THEN /\ loads' = [loads EXCEPT ![l] =
                 [@ EXCEPT !.pc = "read", !.source = source,
                           !.useCache = useCache]]
            /\ schemaCache' = schemaCache
       ELSE LET loaded == LoadSchema(schemaCache, files, source, useCache) IN
            /\ loads' = [loads EXCEPT ![l] =
                 [@ EXCEPT !.pc = "done", !.source = source,
                           !.useCache = useCache,
                           !.outcome = loaded.outcome,
                           !.value = loaded.value]]
            /\ schemaCache' = loaded.cache
  /\ UNCHANGED <<rules, mapped, validationMode, namespacePrefix, heap, calls,
                 files, schema, direct, cli>>

\* readFile settled: the rejection goes to the caller, else the content is
\* looked up under the file key, stored and returned
LoadRead(l) ==
  LET load == loads[l]
      content == files[load.source.text]
      loaded == LoadContent(schemaCache, FileKey(load.source.text), content,
                            load.useCache)
  IN
  /\ load.pc = "read"
  /\ IF content = NoFile
       THEN /\ loads' = [loads EXCEPT ![l] =
                 [load EXCEPT !.pc = "done", !.outcome = "reject",
                              !.value = NoFile, !.fileRead = TRUE]]
            /\ schemaCache' = schemaCache
       ELSE /\ loads' = [loads EXCEPT ![l] =
                 [load EXCEPT !.pc = "done", !.outcome = loaded.outcome,
                              !.value = loaded.value, !.fileRead = TRUE]]
            /\ schemaCache' = loaded.cache
  /\ UNCHANGED <<rules, mapped, validationMode, namespacePrefix, heap, calls,
                 files, schema, direct, cli>>

\* the caller takes the result; it may call again
LoadTaken(l) ==
  /\ loads[l].pc = "done"
  /\ loads' = [loads EXCEPT ![l] = IdleLoad]
  /\ UNCHANGED <<rules, mapped, validationMode, namespacePrefix, heap, calls,
                 ioVars, schema, direct, cli>>

\* clearSchemaCache
ClearSchemaCache ==
  /\ schemaCache # EmptyCache
  /\ schemaCache' = EmptyCache
  /\ UNCHANGED <<rules, mapped, validationMode, namespacePrefix, heap, calls,
                 files, callerVars>>

-----------------------------------------------------------------------------
(* The sdcvalidate command (src/cli/index.ts): the action handler of main.  *)
(* It builds one SDC4Validator (validation 'lax') and makes one call to it. *)

CliOptions == [check : BOOLEAN, report : BOOLEAN, recover : BOOLEAN,
               output : BOOLEAN]

IdleCli ==
  [pc |-> "none", options |-> [check |-> FALSE, report |-> FALSE,
                               recover |-> FALSE, output |-> FALSE],
   mode |-> "none", exitCode |-> -1]

\* the branch the handler takes: the options are tested in this order
CliMode(options) ==
  IF options.check THEN "check"
  ELSE IF options.report THEN "report"
  ELSE IF options.recover THEN "recover"
  ELSE "default"

\* the handler up to its first await, or to process.exit(1) when --recover
\* comes without --output
CliStart(c, src) ==
  LET mode == CliMode(cli.options) IN
  /\ cli.pc = "start"
  /\ calls[c].op = "none"
  /\ IF mode = "recover" /\ ~cli.options.output
       THEN /\ cli' = [cli EXCEPT !.pc = "exited", !.mode = mode, !.exitCode = 1]
            /\ calls' = calls
       ELSE /\ cli' = [cli EXCEPT !.pc = "await", !.mode = mode]
            /\ calls' = [calls EXCEPT ![c] =
                 IF mode = "recover"
                   THEN [@ EXCEPT !.op = "save", !.pc = "parse", !.source = src,
                                  !.removeExistingEV = TRUE,
                                  !.outputPath = OutputPath]
                   ELSE [@ EXCEPT !.op = "report", !.pc = "parse",
                                  !.source = src]]
  /\ UNCHANGED <<rules, mapped, validationMode, namespacePrefix, heap, ioVars,
                 schema, loads, direct>>

\* the awaited call settled: the catch block exits with 1, --check exits with
\* 0 or 1, and every other branch returns, so that the process ends with 0
CliSettled(c) ==
  LET result == calls[c].result IN
  /\ cli.pc = "await"
  /\ calls[c].pc = "done"
  /\ cli' = [cli EXCEPT
       !.pc = "exited",
       !.exitCode = IF result.kind \in {"reject", "throw"} THEN 1
                    ELSE IF cli.mode = "check"
                      THEN (IF result.valid THEN 0 ELSE 1)
                    ELSE 0]
  /\ UNCHANGED <<rules, mapped, validationMode, namespacePrefix, heap, calls,
                 ioVars, schema, loads, direct>>

-----------------------------------------------------------------------------
(* Specifications *)

\* one ErrorMapper, its rules edited and queried
\* nothing is cached, and the files are as they are on disk
InitIO ==
  /\ schemaCache = EmptyCache
  /\ files = InitialFiles

\* no call of a validator method is under way
InitCalls ==
  /\ mapped = NoMapping
  /\ calls = [c \in Calls |-> IdleCall]

\* a default SDC4Validator
InitValidator ==
  /\ rules = DefaultRules
  /\ validationMode = "lax"
  /\ namespacePrefix = DEFAULT_NAMESPACE_PREFIX
  /\ schema = StringSource(SchemaPath)

InitMapper ==
  /\ InitValidator
  /\ InitCalls
  /\ InitIO
  /\ heap = InitialHeap
  /\ loads = [l \in Loads |-> IdleLoad]
  /\ direct = IdleDirect
  /\ cli = IdleCli

CustomCodes == {"MSK", "UNK"}
CustomPriorities == {1, Omitted, 2000}

NextMapper ==
  \/ \E condition \in CustomConditions, evType \in CustomCodes,
        priority \in CustomPriorities : AddRule(condition, evType, priority)
  \/ ClearRules
  \/ \E error \in Errors : MapErrorOp(error)

SpecMapper == InitMapper /\ [][NextMapper]_vars

\* one ErrorMapper, with the default rules or rules of its owner, asked for
\* summaries with and without a code
InitSummary ==
  /\ rules \in MapperConfigs
  /\ mapped = NoMapping
  /\ validationMode = "lax"
  /\ namespacePrefix = DEFAULT_NAMESPACE_PREFIX
  /\ InitCalls
  /\ InitIO
  /\ heap = InitialHeap
  /\ schema = StringSource(SchemaPath)
  /\ loads = [l \in Loads |-> IdleLoad]
  /\ direct = IdleDirect
  /\ cli = IdleCli

NextSummary ==
  \/ \E error \in Errors, evType \in EVTypes \cup {""} :
       GetErrorSummaryOp(error, evType)
  \/ \E error \in Errors \cup OverlapErrors : MapErrorOp(error)

SpecSummary == InitSummary /\ [][NextSummary]_vars

\* one SDC4Validator and one call of one of its methods; the schema loads
\* and the external validator returns
Init ==
  /\ rules \in MapperConfigs
  /\ validationMode \in {ModeOfOption(o) : o \in ValidationOptions}
  /\ namespacePrefix \in Prefixes
  /\ schema = StringSource(SchemaPath)
  /\ InitCalls
  /\ InitIO
  /\ heap = InitialHeap
  /\ loads = [l \in Loads |-> IdleLoad]
  /\ direct = IdleDirect
  /\ cli = IdleCli

Next ==
  \E c \in {"c1"} :
    \/ \E src \in SourceRefs, rem \in BOOLEAN : RecoverCall(c, src, rem)
    \/ RecoverParsed(c)
    \/ RecoverSchemaLoaded(c)
    \/ \E errs \in ErrorLists : RecoverValidated(c, errs)
    \/ \E src \in SourceRefs : IterCall(c, src)
    \/ \E src \in SourceRefs : ReportCall(c, src)
    \/ IterPull(c)
    \/ IterReturn(c)
    \/ GenParsed(c)
    \/ GenSchemaLoaded(c)
    \/ \E errs \in ErrorLists : GenValidated(c, errs)
    \/ ReportConsume(c)

Spec == Init /\ [][Next]_vars

\* validateWithRecovery(xmlSource) while another call of the same validator
\* is suspended or finished, on another source document
RecoverCallOther(c, src, removeExistingEV) ==
  /\ \A d \in Calls \ {c} : calls[d].source # src
  /\ RecoverCall(c, src, removeExistingEV)

\* one SDC4Validator in lax mode and two calls of validateWithRecovery on
\* different source documents, interleaved at their awaits
InitConcurrent ==
  /\ rules = DefaultRules
  /\ validationMode = ModeOfOption("lax")
  /\ namespacePrefix \in Prefixes
  /\ schema = StringSource(SchemaPath)
  /\ InitCalls
  /\ InitIO
  /\ heap = InitialHeap
  /\ loads = [l \in Loads |-> IdleLoad]
  /\ direct = IdleDirect
  /\ cli = IdleCli

NextConcurrent ==
  \E c \in Calls :
    \/ \E src \in SourceRefs, rem \in BOOLEAN : RecoverCallOther(c, src, rem)
    \/ RecoverParsed(c)
    \/ RecoverSchemaLoaded(c)
    \/ \E errs \in ErrorLists : RecoverValidated(c, errs)

SpecConcurrent == InitConcurrent /\ [][NextConcurrent]_vars

\* validateWithRecovery(output) on the document that the call first
\* returned, removeExistingEV at its default
ReapplyCall(c, first) ==
  /\ calls[first].op = "recover" /\ calls[first].pc = "done"
  /\ calls[first].result.kind = "doc"
  /\ RecoverCall(c, calls[first].result.doc, TRUE)

\* the validator returns for the output the errors it returned for the
\* document the output was made from
ReapplyValidated(c, first) ==
  /\ calls[c].source = calls[first].result.doc
  /\ RecoverValidated(c, calls[first].errors)

\* one SDC4Validator in lax mode, a validateWithRecovery call and a second
\* one on what the first returned
InitReapply ==
  /\ rules \in MapperConfigs
  /\ validationMode = ModeOfOption("lax")
  /\ namespacePrefix \in Prefixes
  /\ schema = StringSource(SchemaPath)
  /\ InitCalls
  /\ InitIO
  /\ heap = InitialHeap
  /\ loads = [l \in Loads |-> IdleLoad]
  /\ direct = IdleDirect
  /\ cli = IdleCli

NextReapply ==
  \/ \E src \in SourceRefs : RecoverCall("c1", src, TRUE)
  \/ \E errs \in ErrorLists : RecoverValidated("c1", errs)
  \/ ReapplyCall("c2", "c1")
  \/ ReapplyValidated("c2", "c1")
  \/ \E c \in Calls : RecoverParsed(c)
  \/ \E c \in Calls : RecoverSchemaLoaded(c)

SpecReapply == InitReapply /\ [][NextReapply]_vars

\* the rules a consumer adds through getErrorMapper() while it iterates
LiveRules ==
  { MappingRule("always", "MSK", 1),
    MappingRule("includesTest", "UNK", Omitted) }

\* one SDC4Validator in lax mode, one iteration of iterErrorsWithMapping,
\* and a consumer that edits the rules of validator.getErrorMapper()
InitLive ==
  /\ rules = DefaultRules
  /\ validationMode = ModeOfOption("lax")
  /\ namespacePrefix = DEFAULT_NAMESPACE_PREFIX
  /\ schema = StringSource(SchemaPath)
  /\ InitCalls
  /\ InitIO
  /\ heap = InitialHeap
  /\ loads = [l \in Loads |-> IdleLoad]
  /\ direct = IdleDirect
  /\ cli = IdleCli

NextLive ==
  \/ \E src \in SourceRefs : IterCall("c1", src)
  \/ IterPull("c1")
  \/ IterReturn("c1")
  \/ GenParsed("c1")
  \/ GenSchemaLoaded("c1")
  \/ \E errs \in ErrorLists : GenValidated("c1", errs)
  \/ \E r \in LiveRules : AddRule(r.condition, r.evType, r.priority)
  \/ ClearRules

SpecLive == InitLive /\ [][NextLive]_vars

\* validateWithRecovery(schemaPath, xmlPath, outputPath) of the package: the
\* method validateWithRecovery(xmlPath) of a new SDC4Validator
ConvenienceCall(src) ==
  RecoverCall("c1", src, TRUE)

\* if (outputPath) validator.saveRecoveredXML(outputPath, doc), with the
\* document the method returned as saveRecoveredXML's xmlSource
ConvenienceSave(out) ==
  /\ calls["c1"].op = "recover" /\ calls["c1"].pc = "done"
  /\ calls["c1"].result.kind = "doc"
  /\ SaveCall("c2", out, calls["c1"].result.doc)

\* one call of the convenience function: its validator is made from the
\* options given
InitConvenience ==
  /\ rules = DefaultRules
  /\ validationMode \in {ModeOfOption(o) : o \in ValidationOptions}
  /\ namespacePrefix \in Prefixes
  /\ schema = StringSource(SchemaPath)
  /\ InitCalls
  /\ InitIO
  /\ heap = InitialHeap
  /\ loads = [l \in Loads |-> IdleLoad]
  /\ direct = IdleDirect
  /\ cli = IdleCli

NextConvenience ==
  \/ \E src \in SourceRefs : ConvenienceCall(src)
  \/ ConvenienceSave(OutputPath)
  \/ \E c \in Calls : RecoverParsed(c)
  \/ \E c \in Calls : RecoverSchemaLoaded(c)
  \/ \E c \in Calls, errs \in ErrorLists : RecoverValidated(c, errs)
  \/ SaveWritten("c2")

SpecConvenience == InitConvenience /\ [][NextConvenience]_vars

ValidatorSchemas == {StringSource(SchemaPath), StringSource(MissingPath)}

\* one SDC4Validator and one call of one of its methods, saveRecoveredXML
\* included; the schema file may be missing and the external validator may
\* reject
InitFailure ==
  /\ rules \in {DefaultRules}
  /\ validationMode \in {ModeOfOption(o) : o \in ValidationOptions}
  /\ namespacePrefix = DEFAULT_NAMESPACE_PREFIX
  /\ schema \in ValidatorSchemas
  /\ InitCalls
  /\ InitIO
  /\ heap = InitialHeap
  /\ loads = [l \in Loads |-> IdleLoad]
  /\ direct = IdleDirect
  /\ cli = IdleCli

NextFailure ==
  \E c \in {"c1"} :
    \/ \E src \in SourceRefs, rem \in BOOLEAN : RecoverCall(c, src, rem)
    \/ \E src \in SourceRefs : SaveCall(c, OutputPath, src)
    \/ \E src \in SourceRefs : IterCall(c, src)
    \/ \E src \in SourceRefs : ReportCall(c, src)
    \/ RecoverParsed(c)
    \/ RecoverSchemaLoaded(c)
    \/ RecoverSchemaFailed(c)
    \/ \E errs \in ErrorLists : RecoverValidated(c, errs)
    \/ \E e \in ValidatorFailures : RecoverValidateFailed(c, e)
    \/ SaveWritten(c)
    \/ IterPull(c)
    \/ IterReturn(c)
    \/ GenParsed(c)
    \/ GenSchemaLoaded(c)
    \/ GenSchemaFailed(c)
    \/ \E errs \in ErrorLists : GenValidated(c, errs)
    \/ \E e \in ValidatorFailures : GenValidateFailed(c, e)
    \/ ReportConsume(c)

SpecFailure == InitFailure /\ [][NextFailure]_vars

\* a caller working on its own Document with one InstanceModifier
InitTree ==
  /\ rules = DefaultRules
  /\ validationMode = "lax"
  /\ namespacePrefix \in Prefixes
  /\ schema = StringSource(SchemaPath)
  /\ InitCalls
  /\ InitIO
  /\ \E d \in TreeDocs : heap = [InitialHeap EXCEPT ![TreeRef] = d]
  /\ loads = [l \in Loads |-> IdleLoad]
  /\ direct = IdleDirect
  /\ cli = IdleCli

NextTree ==
  \/ \E errors \in Batches : InjectOp(errors)
  \/ RemoveOp
  \/ \E prefix \in Prefixes : EnsureOp(prefix)

SpecTree == InitTree /\ [][NextTree]_vars

\* callers of loadSchema and clearSchemaCache
InitSchema ==
  /\ InitValidator
  /\ InitCalls
  /\ InitIO
  /\ heap = InitialHeap
  /\ loads = [l \in Loads |-> IdleLoad]
  /\ direct = IdleDirect
  /\ cli = IdleCli

NextSchema ==
  \/ \E l \in Loads, source \in SchemaSources, useCache \in BOOLEAN :
       LoadCall(l, source, useCache)
  \/ \E l \in Loads : LoadRead(l)
  \/ \E l \in Loads : LoadTaken(l)
  \/ ClearSchemaCache

SpecSchema == InitSchema /\ [][NextSchema]_vars

\* one run of the sdcvalidate command
InitCli ==
  /\ rules = DefaultRules
  /\ validationMode = ModeOfOption("lax")
  /\ namespacePrefix \in Prefixes
  /\ schema \in ValidatorSchemas
  /\ InitCalls
  /\ InitIO
  /\ heap = InitialHeap
  /\ loads = [l \in Loads |-> IdleLoad]
  /\ direct = IdleDirect
  /\ \E options \in CliOptions :
       cli = [IdleCli EXCEPT !.pc = "start", !.options = options]

NextCli ==
  \E c \in {"c1"} :
    \/ \E src \in SourceRefs : CliStart(c, src)
    \/ CliSettled(c)
    \/ RecoverParsed(c)
    \/ RecoverSchemaLoaded(c)
    \/ RecoverSchemaFailed(c)
    \/ \E errs \in ErrorLists : RecoverValidated(c, errs)
    \/ \E e \in ValidatorFailures : RecoverValidateFailed(c, e)
    \/ SaveWritten(c)
    \/ GenParsed(c)
    \/ GenSchemaLoaded(c)
    \/ GenSchemaFailed(c)
    \/ \E errs \in ErrorLists : GenValidated(c, errs)
    \/ \E e \in ValidatorFailures : GenValidateFailed(c, e)
    \/ ReportConsume(c)

SpecCli == InitCli /\ [][NextCli]_vars

-----------------------------------------------------------------------------
(* Properties of ErrorMapper, checked under SpecMapper *)

Matches(rule, error) == EvalCond(rule.condition, error) = "true"

Throws(rule, error) == EvalCond(rule.condition, error) = "throw"

RemoveAt(s, i) == SubSeq(s, 1, i - 1) \o SubSeq(s, i + 1, Len(s))

\* the matching rules that no matching rule precedes in priority
LowestMatching(rs, error) ==
  {i \in 1..Len(rs) :
     /\ Matches(rs[i], error)
     /\ \A j \in 1..Len(rs) :
          Matches(rs[j], error) => rs[i].priority <= rs[j].priority}

\* C1: after any sequence of addRule and clearRules calls, rules with a
\* throwing condition included, mapError returns one of the 15 codes for
\* every error (the empty message included) and lets no exception escape.
C1_MapErrorTotal ==
  /\ mapped # NoMapping => mapped.code \in EVTypes
  /\ \A error \in Errors : MapError(rules, error) \in EVTypes

\* mapError was applied to the empty message while the list, cleared of the
\* defaults, held a rule whose condition throws
C1_Witness ==
  /\ mapped # NoMapping
  /\ mapped.error.message = ""
  /\ mapped.code = MapError(rules, mapped.error)
  /\ \E i \in 1..Len(rules) : Throws(rules[i], mapped.error)
  /\ \A i \in 1..Len(rules) : rules[i].condition \notin DefaultConditions

\* C2: when two rules with different priority values both match the error,
\* the one with the higher value never decides: mapError returns the code of
\* a matching rule whose priority value is the lowest among the matching
\* rules, in whatever order the rules were added.
C2_LowerPriorityWins ==
  [][\A error \in Errors :
       MapErrorOp(error) =>
         \A i, j \in 1..Len(rules) :
           ( /\ Matches(rules[i], error)
             /\ Matches(rules[j], error)
             /\ rules[i].priority < rules[j].priority )
           => /\ mapped'.code \in
                   {rules[k].evType : k \in LowestMatching(rules, error)}
              /\ (j \notin LowestMatching(rules, error))
              /\ (LowestMatching(rules, error) = {i}
                    => mapped'.code = rules[i].evType)]_vars

\* a rule of priority 1 added after the defaults and a rule of a priority
\* above the catch-all's both match the classified error, together with the
\* catch-all; the rule of priority 1 decided
C2_Witness ==
  /\ mapped # NoMapping
  /\ mapped.code = MapError(rules, mapped.error)
  /\ \E i, j, k \in 1..Len(rules) :
       /\ rules[i].priority = 1 /\ Matches(rules[i], mapped.error)
       /\ rules[j].condition = "catchAll"
       /\ rules[k].priority = 2000 /\ Matches(rules[k], mapped.error)
       /\ rules[i].evType # rules[k].evType
       /\ rules[i].evType # rules[j].evType
       /\ mapped.code = rules[i].evType

\* C3: a rule whose condition throws for the error counts as not matching:
\* mapError returns what it returns for the list without that rule.
C3_ThrowingRuleSkipped ==
  [][\A error \in Errors :
       MapErrorOp(error) =>
         \A i \in 1..Len(rules) :
           Throws(rules[i], error)
             => mapped'.code = MapError(RemoveAt(rules, i), error)]_vars

\* the first rule of the list threw for the classified error and a later
\* rule with another code decided
C3_Witness ==
  /\ mapped # NoMapping
  /\ mapped.code = MapError(rules, mapped.error)
  /\ Len(rules) > 1
  /\ Throws(rules[1], mapped.error)
  /\ mapped.code # rules[1].evType
  /\ \E i \in 2..Len(rules) :
       Matches(rules[i], mapped.error) /\ rules[i].evType = mapped.code

\* C4: when no rule of the list matches the error, mapError returns NI.
C4_FallbackNI ==
  [][\A error \in Errors :
       MapErrorOp(error) =>
         ( (\A i \in 1..Len(rules) : ~Matches(rules[i], error))
             => mapped'.code = "NI" )]_vars

\* after clearRules, rules that do not match the classified error were added
\* again and mapError returned NI
C4_Witness ==
  /\ mapped # NoMapping
  /\ mapped.code = MapError(rules, mapped.error)
  /\ rules # <<>>
  /\ \A i \in 1..Len(rules) :
       /\ rules[i].condition \notin DefaultConditions
       /\ ~Matches(rules[i], mapped.error)
       /\ rules[i].evType # "NI"
  /\ mapped.code = "NI"

-----------------------------------------------------------------------------
(* Properties of SDC4Validator, checked under Spec *)

\* the clone as it is before anything is injected
BaseTree(c) ==
  LET clone == CloneDocument(InitialHeap[calls[c].source]) IN
    IF calls[c].removeExistingEV THEN RemoveExceptionalValues(clone) ELSE clone

RECURSIVE CountMarkers(_)
RECURSIVE CountMarkersIn(_)
CountMarkersIn(kids) ==
  IF kids = <<>> THEN 0
  ELSE CountMarkers(kids[1]) + CountMarkersIn(Tail(kids))

\* number of marker elements in the tree below node, node included
CountMarkers(node) ==
  (IF IsExceptionalValueElement(node) THEN 1 ELSE 0) + CountMarkersIn(node.kids)

RECURSIVE SumOver(_, _)
SumOver(f, S) ==
  IF S = {} THEN 0
  ELSE LET x == CHOOSE x \in S : TRUE IN f[x] + SumOver(f, S \ {x})

\* C5: in strict mode validateWithRecovery ends in an error carrying the
\* number of validation errors and the first error's message whenever the
\* validator returned at least one error, with nothing injected into the
\* clone and no document returned; with no error it returns the clone.
C5_StrictFails ==
  \A c \in Calls :
    LET call == calls[c] IN
    (validationMode = "strict" /\ call.op = "recover" /\ call.pc = "done")
      => IF Len(call.errors) >= 1
           THEN /\ call.result.kind = "throw"
                /\ call.result.count = Len(call.errors)
                /\ call.result.first = call.errors[1].message
                /\ call.result.doc = "none"
                /\ heap[CloneRef(c)] = BaseTree(c)
           ELSE /\ call.result.kind = "doc"
                /\ call.result.doc = CloneRef(c)
                /\ heap[CloneRef(c)] = BaseTree(c)

\* a strict validateWithRecovery ended after the validator returned two
\* errors
C5_Witness ==
  \E c \in Calls :
    /\ validationMode = "strict"
    /\ calls[c].op = "recover" /\ calls[c].pc = "done"
    /\ calls[c].validateCount = 1
    /\ Len(calls[c].errors) = 2
    /\ calls[c].result.kind = "throw"

\* C6: in strict mode every operation that invokes the validator fails when
\* the validator returns at least one error: nothing is yielded and no
\* report is returned.
C6_StrictFailsEverywhere ==
  \A c \in Calls :
    (validationMode = "strict" /\ Len(calls[c].errors) >= 1)
      => /\ calls[c].result.kind = "throw"
         /\ calls[c].yielded = <<>>

\* C7: in skip mode no operation invokes the validator; validateAndReport
\* returns valid = true and errorCount = 0, iterErrorsWithMapping yields
\* nothing, and validateWithRecovery returns the clone with nothing injected.
C7_SkipNeverValidates ==
  validationMode = "skip" =>
    \A c \in Calls :
      LET call == calls[c] IN
      /\ call.validateCount = 0
      /\ call.pc \notin {"load", "validate", "yielded"}
      /\ call.yielded = <<>>
      /\ (call.op = "report" /\ call.pc = "done")
           => /\ call.result.kind = "report"
              /\ call.result.valid
              /\ call.result.errorCount = 0
              /\ call.result.errors = <<>>
      /\ (call.op = "recover" /\ call.pc = "done")
           => /\ call.result.kind = "doc"
              /\ call.result.doc = CloneRef(c)
              /\ heap[CloneRef(c)] = BaseTree(c)

\* a skip-mode validateAndReport returned its report
C7_Witness ==
  \E c \in Calls :
    /\ validationMode = "skip"
    /\ calls[c].op = "report" /\ calls[c].pc = "done"
    /\ calls[c].result.kind = "report"

\* C8: validateWithRecovery leaves the caller's document as it was; markers
\* are removed from and injected into a clone that is another Document.
C8_SourceNeverMutated ==
  /\ \A s \in SourceRefs : heap[s] = InitialHeap[s]
  /\ \A c \in Calls :
       (calls[c].op = "recover" /\ calls[c].pc # "parse")
         => /\ calls[c].modifiedDoc = CloneRef(c)
            /\ calls[c].modifiedDoc # calls[c].doc

\* a call on a document that carried a marker removed it from the clone and
\* injected new markers into the clone
C8_Witness ==
  \E c \in Calls :
    /\ calls[c].op = "recover" /\ calls[c].pc = "done"
    /\ calls[c].source = "src2" /\ calls[c].removeExistingEV
    /\ calls[c].result.kind = "doc"
    /\ CountMarkers(BaseTree(c)) < CountMarkers(InitialHeap["src2"])
    /\ CountMarkers(heap[CloneRef(c)]) > CountMarkers(BaseTree(c))

\* C9: in every report the counts of exceptionalValueTypeCounts add up to
\* errorCount.
C9_CountsSumToErrorCount ==
  \A c \in Calls :
    calls[c].result.kind = "report"
      => /\ DOMAIN calls[c].result.counts = EVTypes
         /\ SumOver(calls[c].result.counts, EVTypes) = calls[c].result.errorCount

\* a report of two errors that were given different codes
C9_Witness ==
  \E c \in Calls :
    /\ calls[c].result.kind = "report"
    /\ calls[c].result.errorCount = 2
    /\ \E s, t \in EVTypes :
         s # t /\ calls[c].result.counts[s] = 1 /\ calls[c].result.counts[t] = 1

\* C10: in lax mode the report of validateAndReport has errorCount equal to
\* the number of errors the validator returned, holds the summary of each
\* returned error at the error's position, and is valid exactly when the
\* validator returned no error.
C10_LaxReportsEveryError ==
  \A c \in Calls :
    LET call == calls[c] IN
    (validationMode = "lax" /\ call.op = "report" /\ call.pc = "done")
      => /\ call.result.kind = "report"
         /\ call.result.errorCount = Len(call.errors)
         /\ Len(call.result.errors) = Len(call.errors)
         /\ \A i \in 1..Len(call.errors) :
              /\ call.result.errors[i].reason = call.errors[i].message
              /\ call.result.errors[i].xpath = PathOrRoot(call.errors[i])
              /\ call.result.errors[i].exceptionalValueType \in EVTypes
         /\ call.result.valid <=> (Len(call.errors) = 0)

\* a lax report of two different errors
C10_Witness ==
  \E c \in Calls :
    /\ validationMode = "lax"
    /\ calls[c].op = "report" /\ calls[c].pc = "done"
    /\ Len(calls[c].errors) = 2
    /\ calls[c].errors[1] # calls[c].errors[2]
    /\ calls[c].result.errorCount = 2
    /\ ~calls[c].result.valid

-----------------------------------------------------------------------------
(* Properties of InstanceModifier and the namespace helpers, checked under  *)
(* SpecTree.  direct.before is the Document as it was before the caller's   *)
(* last operation, heap[TreeRef] the Document as it is now.                 *)

Now == heap[TreeRef]

\* an element in the marker namespace named after one of the 15 codes
IsMarker(node) ==
  node.kind = "elem" /\ node.ns = SDC4_NAMESPACE /\ node.local \in EVTypes

RECURSIVE MarkerCount(_)
RECURSIVE MarkerCountIn(_)
MarkerCountIn(kids) ==
  IF kids = <<>> THEN 0
  ELSE MarkerCount(kids[1]) + MarkerCountIn(Tail(kids))

\* the markers in the tree of node, at any depth
MarkerCount(node) ==
  (IF IsMarker(node) THEN 1 ELSE 0) + MarkerCountIn(node.kids)

\* the markers among the children of node
DirectMarkers(node) ==
  Cardinality({k \in 1..Len(node.kids) : IsMarker(node.kids[k])})

WhitespaceStrings == {"\n  ", "\n"}

IsWhitespaceText(node) ==
  node.kind = "text" /\ \A k \in 1..Len(node.data) : node.data[k] \in WhitespaceStrings

\* the marker an ErrorLocation asks for: named after the code, under the
\* given prefix, its first child an ev-name element holding the display name
IsMarkerFor(node, error, prefix) ==
  /\ node.kind = "elem"
  /\ node.ns = SDC4_NAMESPACE
  /\ node.prefix = prefix
  /\ node.local = error.evType
  /\ node.kids # <<>>
  /\ node.kids[1].kind = "elem"
  /\ node.kids[1].ns = SDC4_NAMESPACE
  /\ node.kids[1].local = "ev-name"
  /\ node.kids[1].kids =
       <<TextNode(<<EXCEPTIONAL_VALUE_METADATA[error.evType].name>>)>>

\* the last operation injected the single location error, whose parent path
\* selects the node at pos
InjectedOne(error, pos) ==
  /\ direct.op = "inject" /\ direct.outcome = "ok"
  /\ direct.errors = <<error>>
  /\ pos = FindElement(direct.before, GetParentPath(error.xpath))
  /\ pos # NotFound

WithParent(errors, parentPath) ==
  {i \in 1..Len(errors) : GetParentPath(errors[i].xpath) = parentPath}

\* the locations of a batch whose parent path selects a node of root
Resolved(root, errors) ==
  {i \in 1..Len(errors) :
     FindElement(root, GetParentPath(errors[i].xpath)) # NotFound}

\* C12: injectExceptionalValues on a Document with a root element never
\* fails; the locations whose parent path selects nothing get no marker, and
\* under every parent that a parent path selects there is one more marker
\* for each location of the batch whose parent path selects that parent.
C12_UnresolvedSkipped ==
  (direct.op = "inject" /\ direct.before.kind # "none") =>
    /\ direct.outcome = "ok"
    /\ MarkerCount(Now) =
         MarkerCount(direct.before) + Cardinality(Resolved(direct.before, direct.errors))
    /\ \A i \in Resolved(direct.before, direct.errors) :
         LET parentPath == GetParentPath(direct.errors[i].xpath)
             was == NodeAt(direct.before, FindElement(direct.before, parentPath))
             is == NodeAt(Now, FindElement(Now, parentPath))
         IN DirectMarkers(is) =
              DirectMarkers(was)
                + Cardinality({j \in Resolved(direct.before, direct.errors) :
                     FindElement(direct.before, GetParentPath(direct.errors[j].xpath))
                       = FindElement(direct.before, parentPath)})

\* a batch whose first location is unresolvable and whose second is not was
\* injected: one marker more
C12_Witness ==
  /\ direct.op = "inject" /\ direct.outcome = "ok"
  /\ direct.errors = <<LostLocation, AgeLocation>>
  /\ Resolved(direct.before, direct.errors) = {2}
  /\ MarkerCount(Now) = MarkerCount(direct.before) + 1

\* the tree without its whitespace-only text nodes
RECURSIVE StripWhitespace(_)
RECURSIVE StripWhitespaceIn(_)
StripWhitespaceIn(kids) ==
  IF kids = <<>> THEN <<>>
  ELSE IF IsWhitespaceText(kids[1]) THEN StripWhitespaceIn(Tail(kids))
  ELSE <<StripWhitespace(kids[1])>> \o StripWhitespaceIn(Tail(kids))

StripWhitespace(node) == [node EXCEPT !.kids = StripWhitespaceIn(@)]

\* C13: removeExceptionalValues after an injection into a Document without
\* markers gives back the Document as it was before the injection, up to
\* whitespace: the same elements with the same attributes, the root's
\* included, in the same order.
C13_InjectRemoveRoundTrip ==
  [][(/\ direct.op = "inject" /\ direct.outcome = "ok"
      /\ MarkerCount(direct.before) = 0
      /\ RemoveOp)
     => StripWhitespace(heap'[TreeRef]) = StripWhitespace(direct.before)]_vars

\* the attributes of a sequence named name
Named(attrs, name) == SelectSeq(attrs, LAMBDA a : a.name = name)

\* the attributes of a sequence not named name
NotNamed(attrs, name) == SelectSeq(attrs, LAMBDA a : a.name # name)

\* C14: after ensureSDC4Namespace(doc, prefix), called directly or by an
\* injection, and however often it was called before, the root carries
\* exactly one xmlns:prefix attribute and its other attributes are as they
\* were; a call that finds the attribute changes nothing.
C14_OneDeclaration ==
  (direct.op \in {"ensure", "inject"} /\ direct.outcome = "ok") =>
    LET name == NsAttrName(direct.prefix) IN
    /\ Len(Named(Now.attrs, name)) = 1
    /\ NotNamed(Now.attrs, name) = NotNamed(direct.before.attrs, name)
    /\ Named(direct.before.attrs, name) # <<>> => Now.attrs = direct.before.attrs

\* a third operation that ensures a declaration which an earlier call added:
\* the root has attributes of its own and the one declaration
C14_Witness ==
  /\ direct.op = "ensure" /\ direct.outcome = "ok"
  /\ direct.count = 3
  /\ direct.prefix = "custom"
  /\ InitialHeap[TreeRef].attrs = <<>>
  /\ Named(direct.before.attrs, "xmlns:custom") # <<>>
  /\ Len(Now.attrs) >= 1

\* the nodes of a tree outside its markers, in document order, each with its
\* depth
RECURSIVE OutlineOutsideMarkers(_, _)
RECURSIVE OutlineOutsideMarkersIn(_, _)
OutlineOutsideMarkersIn(kids, depth) ==
  IF kids = <<>> THEN <<>>
  ELSE OutlineOutsideMarkers(kids[1], depth)
       \o OutlineOutsideMarkersIn(Tail(kids), depth)

OutlineOutsideMarkers(node, depth) ==
  IF node.kind = "none" \/ IsMarker(node) THEN <<>>
  ELSE <<[depth |-> depth, node |-> [node EXCEPT !.kids = <<>>]]>>
       \o OutlineOutsideMarkersIn(node.kids, depth + 1)

\* C15: after removeExceptionalValues no element of the tree is a marker,
\* under any prefix and at any depth; the nodes that were neither markers
\* nor inside one are all there, in their order and at their depth; a
\* Document without markers is left as it was.
C15_RemoveAllMarkers ==
  direct.op = "remove" =>
    /\ MarkerCount(Now) = 0
    /\ OutlineOutsideMarkers(Now, 0) = OutlineOutsideMarkers(direct.before, 0)
    /\ MarkerCount(direct.before) = 0 => Now = direct.before

\* the markers were removed from a Document that had them under three
\* prefixes, one inside another, next to elements that are no markers
C15_Witness ==
  /\ direct.op = "remove"
  /\ direct.before = NestedDoc
  /\ MarkerCount(direct.before) = 3
  /\ Len(Now.kids[2].kids) = 3

-----------------------------------------------------------------------------
(* Properties of loadSchema, checked under SpecSchema *)

\* the schema of a source: the object itself, the content of the file at
\* the path, or the text of the string or Buffer
SchemaOf(source) ==
  IF source.type = "object" THEN source.text
  ELSE IF ReadsFile(source) THEN files[source.text]
  ELSE source.text

\* C16: whatever was loaded and cleared before, a loadSchema that succeeds
\* returns the schema of the source it was given, also when the cache
\* answers: no two different schema contents share a cache entry.
C16_LoadReturnsOwnSchema ==
  \A l \in Loads :
    (loads[l].pc = "done" /\ loads[l].outcome = "ok")
      => loads[l].value = SchemaOf(loads[l].source)

-----------------------------------------------------------------------------
(* Further properties of SDC4Validator, checked under Spec *)

IsPrefix(s, t) == Len(s) <= Len(t) /\ s = SubSeq(t, 1, Len(s))

\* C17: an iteration of iterErrorsWithMapping invokes the validator at most
\* once, and exactly once before it yields anything; what it has yielded is
\* the summaries of the first errors the validator returned, in the
\* validator's order; elements once yielded stay as they are, and when the
\* consumer stops early the validator is not invoked again and nothing more
\* is yielded.
C17_ValidatorInvokedOnce ==
  /\ [](\A c \in Calls :
          LET call == calls[c] IN
          call.op = "iter" =>
            /\ call.validateCount <= 1
            /\ call.yielded # <<>> => call.validateCount = 1
            /\ Len(call.yielded) <= Len(call.errors)
            /\ \A i \in 1..Len(call.yielded) :
                 /\ call.yielded[i].reason = call.errors[i].message
                 /\ call.yielded[i].xpath = PathOrRoot(call.errors[i])
                 /\ call.yielded[i].exceptionalValueType
                      = MapError(rules, call.errors[i]))
  /\ [][\A c \in Calls :
          calls[c].op = "iter" =>
            /\ IsPrefix(calls[c].yielded, calls'[c].yielded)
            /\ calls'[c].validateCount >= calls[c].validateCount
            /\ IterReturn(c) =>
                 /\ calls'[c].yielded = calls[c].yielded
                 /\ calls'[c].validateCount = calls[c].validateCount
                 /\ calls'[c].pc = "done"
            /\ calls[c].pc = "done" => calls'[c] = calls[c]]_vars

\* the consumer stopped after the first of two elements: the validator was
\* invoked once
C17_Witness ==
  \E c \in Calls :
    /\ calls[c].op = "iter" /\ calls[c].pc = "done"
    /\ Len(calls[c].errors) = 2
    /\ Len(calls[c].yielded) = 1
    /\ calls[c].validateCount = 1

-----------------------------------------------------------------------------
(* Properties of SDC4Validator under operational failures, checked under    *)
(* SpecFailure                                                              *)

Rejection(e) == [NoResult EXCEPT !.kind = "reject", !.error = e]

\* nothing was injected into the clone of call c and no file was written
NothingDone(c) ==
  /\ files = InitialFiles
  /\ calls[c].op \in RecoverOps /\ calls[c].modifiedDoc # "none"
       => heap[calls[c].modifiedDoc] = BaseTree(c)

\* C18: when loadSchema or the external validator rejects during
\* validateWithRecovery, validateAndReport or saveRecoveredXML, the method
\* rejects with that very error: no document and no report is returned,
\* nothing is injected into the clone and no file is written.
C18_FailureSurfacesUnmodified ==
  /\ [](\A c \in Calls :
          LET call == calls[c] IN
          /\ (/\ call.op \in RecoverOps \cup {"report"}
              /\ call.pc = "done"
              /\ schema = StringSource(MissingPath)
              /\ validationMode # "skip")
               => (call.result = Rejection(NoFile) /\ call.validateCount = 0)
          /\ call.result.kind = "reject"
               => (call.pc = "done" /\ NothingDone(c)))
  /\ [][\A c \in Calls, e \in ValidatorFailures :
          (RecoverValidateFailed(c, e) \/ GenValidateFailed(c, e))
            => /\ calls'[c].pc = "done"
               /\ calls'[c].result = Rejection(e)
               /\ files' = files
               /\ heap' = heap]_vars

\* saveRecoveredXML ended with the validator's rejection and the output file
\* does not exist
C18_Witness ==
  \E c \in Calls :
    /\ calls[c].op = "save" /\ calls[c].pc = "done"
    /\ calls[c].validateCount = 1
    /\ calls[c].result.kind = "reject"
    /\ calls[c].result.error \in ValidatorFailures
    /\ files[OutputPath] = NoFile

-----------------------------------------------------------------------------
(* Properties of the sdcvalidate command, checked under SpecCli *)

\* the command could not do its work: --recover without --output, or the
\* validator method rejected (schema file not found, validator failure)
OperationalError ==
  \/ CliMode(cli.options) = "recover" /\ ~cli.options.output
  \/ \E c \in Calls : calls[c].result.kind = "reject"

\* the validation the command ran found errors in the document
ErrorsPresent ==
  \E c \in Calls : calls[c].op = "report" /\ calls[c].errors # <<>>

\* C19: sdcvalidate exits with 2 after an operational error, with 1 when the
\* validation found errors, and with 0 when the document is valid or the
\* operation succeeded.
C19_ExitCodes ==
  cli.pc = "exited" =>
    cli.exitCode = IF OperationalError THEN 2
                   ELSE IF ErrorsPresent THEN 1
                   ELSE 0

-----------------------------------------------------------------------------
(* Properties of ErrorMapper.getErrorSummary, checked under SpecSummary *)

Summarized == mapped.summary # NoSummary

HasPath(error) == error.path # NoPath /\ error.path # <<"">>

HasType(error) == error.type # ""

\* the code the summary has to carry
SummaryCode ==
  IF mapped.supplied # "" THEN mapped.supplied
  ELSE MapError(rules, mapped.error)

\* C20: getErrorSummary(error, code) carries the supplied code, or
\* mapError(error) when none is supplied, with that code's name and
\* description; xpath is the error's path, or "/" when it has none, and
\* errorType is the error's type, or "validation-error" when it has none.
C20_SummaryDefaults ==
  Summarized =>
    LET summary == mapped.summary
        error == mapped.error
    IN /\ summary.exceptionalValueType = SummaryCode
       /\ summary.exceptionalValueName = EXCEPTIONAL_VALUE_METADATA[SummaryCode].name
       /\ summary.description = EXCEPTIONAL_VALUE_METADATA[SummaryCode].description
       /\ summary.reason = error.message
       /\ summary.xpath = (IF HasPath(error) THEN error.path ELSE RootPath)
       /\ summary.errorType =
            (IF HasType(error) THEN error.type ELSE "validation-error")

\* a summary with a supplied code that mapError would not give, for an error
\* without path and without type
C20_Witness ==
  /\ Summarized
  /\ mapped.supplied \in EVTypes
  /\ mapped.supplied # MapError(rules, mapped.error)
  /\ mapped.summary.exceptionalValueType = mapped.supplied
  /\ ~HasPath(mapped.error) /\ ~HasType(mapped.error)
  /\ mapped.summary.xpath = RootPath
  /\ mapped.summary.errorType = "validation-error"

-----------------------------------------------------------------------------
(* Properties of the default rule set, checked under SpecSummary *)

\* mapError(error) was called, and nothing else
MappedOnly == mapped # NoMapping /\ mapped.summary = NoSummary

\* the code of the earliest category, in the documented order, whose
\* patterns the error matches
EarliestCategory(error) ==
  IF Rule1Cond(error) THEN "NI"
  ELSE IF Rule2Cond(error) THEN "INV"
  ELSE IF Rule3Cond(error) THEN "INV"
  ELSE IF Rule4Cond(error) THEN "OTH"
  ELSE IF Rule5Cond(error) THEN "NA"
  ELSE IF Rule6Cond(error) THEN "UNC"
  ELSE "NI"

\* number of default pattern categories the error matches
CategoriesMatched(error) ==
  Cardinality({k \in 1..6 :
     \/ k = 1 /\ Rule1Cond(error)
     \/ k = 2 /\ Rule2Cond(error)
     \/ k = 3 /\ Rule3Cond(error)
     \/ k = 4 /\ Rule4Cond(error)
     \/ k = 5 /\ Rule5Cond(error)
     \/ k = 6 /\ Rule6Cond(error)})

\* C21: with only the default rules, mapError returns the code of the
\* earliest matching category in the order missing/required (NI), type (INV),
\* facet (INV), enumeration (OTH), unexpected content (NA), encoding (UNC),
\* catch-all (NI), also when the error matches several categories.
C21_EarliestCategoryWins ==
  (MappedOnly /\ rules = DefaultRules)
    => mapped.code = EarliestCategory(mapped.error)

\* an error that matches the enumeration, unexpected-content and encoding
\* patterns was mapped to OTH
C21_Witness ==
  /\ MappedOnly /\ rules = DefaultRules
  /\ CategoriesMatched(mapped.error) = 3
  /\ Rule4Cond(mapped.error) /\ Rule5Cond(mapped.error)
  /\ mapped.code = "OTH"

-----------------------------------------------------------------------------
(* Properties of addRule's default priority, checked under SpecMapper *)

\* the default rules with one rule between the pattern rules and the
\* catch-all
DefaultsWith(rule) ==
  SubSeq(DefaultRules, 1, 6) \o <<rule>> \o <<DefaultRules[7]>>

AnyPatternMatches(error) ==
  \E k \in 1..6 : Matches(DefaultRules[k], error)

\* C22: a rule added without a priority gets priority 100 and stands after
\* the six default pattern rules and before the catch-all; mapError returns
\* its code exactly when its condition is true and no default pattern rule
\* matches, and the default result otherwise.
C22_DefaultPriorityBetween ==
  [][\A condition \in CustomConditions, evType \in CustomCodes :
       LET rule == MappingRule(condition, evType, 100) IN
       /\ (AddRule(condition, evType, Omitted) /\ rules = DefaultRules)
            => rules' = DefaultsWith(rule)
       /\ \A error \in Errors :
            (MapErrorOp(error) /\ rules = DefaultsWith(rule))
              => mapped'.code =
                   IF Matches(rule, error) /\ ~AnyPatternMatches(error)
                     THEN evType
                     ELSE MapError(DefaultRules, error)]_vars

\* a rule added without a priority to the default rules decided an error
\* that no pattern rule matches, and the catch-all did not
C22_Witness ==
  /\ MappedOnly
  /\ Len(rules) = 8
  /\ SubSeq(rules, 1, 6) = SubSeq(DefaultRules, 1, 6)
  /\ rules[7].priority = 100 /\ rules[7].condition \in CustomConditions
  /\ rules[8].condition = "catchAll"
  /\ Matches(rules[7], mapped.error)
  /\ ~AnyPatternMatches(mapped.error)
  /\ mapped.code = rules[7].evType
  /\ mapped.code # "NI"

-----------------------------------------------------------------------------
(* Properties of the injection order and of parent resolution, checked      *)
(* under SpecTree                                                           *)

Injected == direct.op = "inject" /\ direct.outcome = "ok"

\* the locations of the batch with the given parent path, in batch order
LocationsOf(errors, parentPath) ==
  SelectSeq(errors, LAMBDA e : GetParentPath(e.xpath) = parentPath)

ElementChildren(node) == SelectSeq(node.kids, LAMBDA n : n.kind = "elem")

\* the nodes without what is below them
Shallow(nodes) == [k \in 1..Len(nodes) |-> [nodes[k] EXCEPT !.kids = <<>>]]

\* the parent paths of the batch that select a node of the Document
ResolvedParents(root, errors) ==
  {GetParentPath(errors[i].xpath) : i \in Resolved(root, errors)}

\* C23: the markers of the locations of one batch that share a parent path
\* stand under that parent in the reverse of their processing order, in
\* front of the elements the parent had before, which keep their order: the
\* marker of the location processed last is the first element.
C23_ReverseOrderUnderParent ==
  Injected =>
    \A parentPath \in ResolvedParents(direct.before, direct.errors) :
      LET locations == LocationsOf(direct.errors, parentPath)
          n == Len(locations)
          was == NodeAt(direct.before, FindElement(direct.before, parentPath))
          is == NodeAt(Now, FindElement(Now, parentPath))
          elements == ElementChildren(is)
          \* all the markers the batch puts under this parent
          m == Cardinality({j \in Resolved(direct.before, direct.errors) :
                 FindElement(direct.before, GetParentPath(direct.errors[j].xpath))
                   = FindElement(direct.before, parentPath)})
      IN /\ Len(elements) = m + Len(ElementChildren(was))
         /\ \E first \in 0..(m - n) :
              \A k \in 1..n :
                IsMarkerFor(elements[first + k], locations[n + 1 - k],
                            direct.prefix)
         /\ Shallow(SubSeq(elements, m + 1, Len(elements))) =
              Shallow(ElementChildren(was))

\* the locations /root/person/age (INV) and /root/person/email (OTH) were
\* injected in this order into <root><person><name/></person></root>: OTH
\* stands before INV
C23_Witness ==
  /\ Injected
  /\ direct.errors = <<AgeLocation, EmailLocation>>
  /\ direct.before = PersonDoc
  /\ LET elements == ElementChildren(Now.kids[1]) IN
       /\ elements[1].local = "OTH"
       /\ elements[2].local = "INV"
       /\ elements[3].local = "name"

\* the positions of the batch whose xpath is "/"
SlashLocations(errors) == {i \in 1..Len(errors) : errors[i].xpath = RootPath}

\* the root has a child that is the marker of the location
MarkerUnderRoot(error) ==
  \E k \in 1..Len(Now.kids) : IsMarkerFor(Now.kids[k], error, direct.prefix)

\* C24 (as amended): a location whose xpath is "/" is not skipped: its parent
\* path is "/", which resolves to the root element, and its marker becomes a
\* child of the root; the other locations of the batch are processed as
\* without it.
C24_SlashInsertsUnderRoot ==
  (Injected /\ SlashLocations(direct.errors) # {}) =>
    /\ \A i \in SlashLocations(direct.errors) : MarkerUnderRoot(direct.errors[i])
    /\ MarkerCount(Now) =
         MarkerCount(direct.before)
           + Cardinality(SlashLocations(direct.errors))
           + Cardinality(Resolved(direct.before, direct.errors)
                           \ SlashLocations(direct.errors))

\* the batch of "/" and /root/person/age was injected: two markers more,
\* one of them the root's
C24_Witness ==
  /\ Injected
  /\ direct.errors = <<SlashLocation, AgeLocation>>
  /\ direct.before = PersonDoc
  /\ MarkerUnderRoot(SlashLocation)
  /\ MarkerCount(Now) = 2

\* C24 (as stated): a location whose xpath is "/" is skipped: no marker is
\* inserted for it, and the rest of the batch is processed.
C24_SlashSkipped ==
  (Injected /\ SlashLocations(direct.errors) # {}) =>
    MarkerCount(Now) =
      MarkerCount(direct.before)
        + Cardinality(Resolved(direct.before, direct.errors)
                        \ SlashLocations(direct.errors))

\* the non-empty segments of an xpath
Segments(xpath) == SelectSeq(xpath, LAMBDA p : p # "")

\* the parent path as the claim describes it
ParentPathOf(xpath) ==
  LET parts == Segments(xpath) IN
    IF Len(parts) <= 1 THEN RootPath
    ELSE <<"">> \o SubSeq(parts, 1, Len(parts) - 1)

\* C25: the parent path of a location is its xpath without the empty
\* segments and without the last segment, with a leading "/"; an xpath with
\* at most one non-empty segment gives "/", the root element, and its marker
\* becomes a child of the root; the parent is looked up once for every
\* distinct parent path of the batch.
C25_ParentPathAndGrouping ==
  Injected =>
    /\ \A i \in 1..Len(direct.errors) :
         LET error == direct.errors[i] IN
         /\ GetParentPath(error.xpath) = ParentPathOf(error.xpath)
         /\ Len(Segments(error.xpath)) <= 1 => MarkerUnderRoot(error)
    /\ direct.lookups =
         Cardinality({ParentPathOf(direct.errors[i].xpath) :
                        i \in 1..Len(direct.errors)})

\* /root/person/ , /root and / were injected: the last two share the parent
\* path "/" and one lookup, and the marker of /root is a child of the root
C25_Witness ==
  /\ Injected
  /\ direct.errors = <<TrailingLocation, RootLocation, SlashLocation>>
  /\ GetParentPath(TrailingLocation.xpath) = <<"", "root">>
  /\ direct.lookups = 2
  /\ MarkerUnderRoot(RootLocation)

-----------------------------------------------------------------------------
(* Properties of the schema cache, checked under SpecSchema *)

CachedKeys == DOMAIN schemaCache

FilePaths == {SchemaPath, OtherSchemaPath}

ContentSources ==
  {source \in SchemaSources : source.type # "object" /\ ~ReadsFile(source)}

\* C26: only clearSchemaCache removes cache entries, and it removes them
\* all; only a loadSchema with caching enabled adds one; a load of a file
\* path whose key is cached returns the cached schema without reading the
\* file, and a load whose key is not cached (as after a clear) reads its
\* source again.
C26_CacheLifecycle ==
  [][/\ CachedKeys \subseteq DOMAIN schemaCache' \/ ClearSchemaCache
     /\ ClearSchemaCache => DOMAIN schemaCache' = {}
     /\ ~(DOMAIN schemaCache' \subseteq CachedKeys)
          => \E l \in Loads :
               /\ loads[l].pc # "done" /\ loads'[l].pc = "done"
               /\ loads'[l].useCache
     /\ \A l \in Loads, path \in FilePaths, useCache \in BOOLEAN :
          LoadCall(l, StringSource(path), useCache) =>
            IF useCache /\ FileKey(path) \in CachedKeys
              THEN /\ loads'[l].pc = "done"
                   /\ ~loads'[l].fileRead
                   /\ loads'[l].value = schemaCache[FileKey(path)]
              ELSE loads'[l].pc = "read"
     /\ \A l \in Loads : LoadRead(l) => loads'[l].fileRead
     /\ \A l \in Loads, source \in ContentSources :
          (LoadCall(l, source, TRUE) /\ CachedKeys = {})
            => /\ loads'[l].value = source.text
               /\ DOMAIN schemaCache' = {ContentKey(source.text)}]_vars

\* a load of a.xsd was answered by the cache, without a read of the file
C26_Witness ==
  \E l \in Loads :
    /\ loads[l].pc = "done" /\ loads[l].outcome = "ok"
    /\ loads[l].source = StringSource(SchemaPath)
    /\ loads[l].useCache
    /\ ~loads[l].fileRead
    /\ FileKey(SchemaPath) \in CachedKeys
    /\ loads[l].value = schemaCache[FileKey(SchemaPath)]

-----------------------------------------------------------------------------
(* Properties of interleaved validateWithRecovery calls, checked under      *)
(* SpecConcurrent                                                           *)

\* the document a call returns when it runs alone: the clone of its source,
\* stripped when asked, with the markers of its own errors
RecoveredAlone(c) ==
  LET locations == ErrorLocations(rules, calls[c].errors) IN
    IF locations = <<>> THEN BaseTree(c)
    ELSE InjectExceptionalValues(BaseTree(c), locations, namespacePrefix)

Returned(c) ==
  calls[c].op = "recover" /\ calls[c].pc = "done" /\ calls[c].result.kind = "doc"

\* C27: two validateWithRecovery calls of one validator on different source
\* documents, interleaved in any way at their awaits, each return the
\* document that the call returns when it runs alone, with the markers of
\* the errors the validator returned for its own document, and the two
\* returned documents are different Documents.
C27_InterleavedCallsIndependent ==
  /\ \A c \in Calls :
       Returned(c)
         => /\ heap[calls[c].result.doc] = RecoveredAlone(c)
            /\ CountMarkers(heap[calls[c].result.doc]) =
                 CountMarkers(BaseTree(c))
                   + Cardinality(Resolved(BaseTree(c),
                                          ErrorLocations(rules, calls[c].errors)))
  /\ \A c, d \in Calls :
       (c # d /\ Returned(c) /\ Returned(d))
         => calls[c].result.doc # calls[d].result.doc

\* one call returned its document with a marker while the other call, on the
\* other source, was suspended at the external validation
C27_Witness ==
  \E c, d \in Calls :
    /\ c # d
    /\ Returned(c)
    /\ calls[d].op = "recover" /\ calls[d].pc = "validate"
    /\ calls[c].source # calls[d].source
    /\ calls[c].errors # <<>>
    /\ CountMarkers(heap[calls[c].result.doc]) > CountMarkers(BaseTree(c))

-----------------------------------------------------------------------------
(* Properties of a repeated recovery, checked under SpecReapply *)

\* the markers of a tree in document order, each with the names of the
\* elements above it and its code
RECURSIVE MarkersBelow(_, _)
RECURSIVE MarkersAmong(_, _)
MarkersAmong(kids, path) ==
  IF kids = <<>> THEN <<>>
  ELSE MarkersBelow(kids[1], path) \o MarkersAmong(Tail(kids), path)

MarkersBelow(node, path) ==
  IF node.kind # "elem" THEN <<>>
  ELSE IF IsMarker(node) THEN <<[parent |-> path, code |-> node.local]>>
  ELSE MarkersAmong(node.kids, Append(path, node.local))

\* call c was made on the document that call first returned
Reapplied(c, first) ==
  /\ Returned(first) /\ Returned(c)
  /\ calls[c].source = calls[first].result.doc
  /\ calls[c].removeExistingEV
  /\ calls[c].errors = calls[first].errors

\* C28: with removeExistingEV = true and a validator that returns the same
\* errors, validateWithRecovery applied to its own output returns a
\* document with the same markers as the first pass, the same codes under
\* the same parents in the same order: the markers of the first pass do not
\* accumulate.
C28_ReapplyKeepsMarkers ==
  Reapplied("c2", "c1") =>
    /\ MarkersBelow(heap[calls["c2"].result.doc], <<>>) =
         MarkersBelow(heap[calls["c1"].result.doc], <<>>)
    /\ MarkerCount(heap[calls["c2"].result.doc]) =
         MarkerCount(heap[calls["c1"].result.doc])

\* a second pass over an output that carried two markers returned a
\* document with two markers
C28_Witness ==
  /\ Reapplied("c2", "c1")
  /\ Len(calls["c1"].errors) = 2
  /\ MarkerCount(heap[calls["c1"].result.doc]) = 2
  /\ MarkerCount(heap[calls["c2"].result.doc]) = 2

-----------------------------------------------------------------------------
(* Properties of an iteration whose rules change, checked under SpecLive *)

\* C29: iterErrorsWithMapping classifies an error when the pull for it is
\* served: a change of the rules leaves the elements already yielded as
\* they are, and every element is classified with the rules as they are
\* when it is yielded, not as they were when the iteration began.
C29_ClassifiedAtPull ==
  [][\A c \in Calls :
       LET was == calls[c].yielded
           is == calls'[c].yielded
       IN /\ IsPrefix(was, is)
          /\ Len(is) <= Len(was) + 1
          /\ rules' # rules => calls' = calls
          /\ Len(is) = Len(was) + 1
               => /\ rules' = rules
                  /\ is[Len(is)].exceptionalValueType =
                       MapError(rules, calls'[c].errors[Len(is)])
                  /\ is[Len(is)].reason = calls'[c].errors[Len(is)].message]_vars

\* the validator returned the same error twice and the rules changed between
\* the two pulls: the two elements carry different codes
C29_Witness ==
  \E c \in Calls :
    /\ calls[c].op = "iter"
    /\ Len(calls[c].yielded) = 2
    /\ calls[c].errors[1] = calls[c].errors[2]
    /\ calls[c].yielded[1].exceptionalValueType
         # calls[c].yielded[2].exceptionalValueType



(* Properties of the convenience function, checked under SpecConvenience *)

\* the convenience function wrote its output
Saved ==
  calls["c2"].op = "save" /\ calls["c2"].result.kind = "saved"

\* the calls of the external validator the convenience function made
ValidatorCalls ==
  calls["c1"].validateCount + calls["c2"].validateCount

\* C30: when the convenience function validateWithRecovery(schemaPath,
\* xmlPath, outputPath), called without options and so in lax mode, has
\* written its output, the external validator was invoked exactly once, and
\* the content of outputPath is the serialization of the document the
\* function returns.
C30_OneValidationOneDocument ==
  (Saved /\ validationMode = ModeOfOption("lax")) =>
    /\ ValidatorCalls = 1
    /\ files[calls["c2"].outputPath] =
         SerializeXML(heap[calls["c1"].result.doc])

=============================================================================
